---- MODULE Spec2Model ----
(***************************************************************************)
(* Coupon lifecycle engine of CouponManager: the coupon service            *)
(* (assign, lock, unlock, redeem), the book service's bulk insert, the     *)
(* cache plane (dedup flags and locks on Redis) and the persistence plane  *)
(* (PostgreSQL rows, row locks, transactions under READ COMMITTED).        *)
(*                                                                         *)
(* A request handler is a process.  Every await of the source that reads   *)
(* or writes shared state (a cache round trip, a database statement that   *)
(* takes row locks, a commit) is one step of the process.  A transaction   *)
(* is two steps: the statement that takes its row locks and reads, and     *)
(* the writes with the commit, which become visible together and release   *)
(* the row locks.                                                          *)
(***************************************************************************)
EXTENDS Integers, Sequences, FiniteSets, TLC

\* ------------------------------------------------------------------ bounds

\* batchInsertCodes sends its codes in batches of BATCH_SIZE (5000); the model's
\* batches hold BatchSize codes.
BatchSize == 2

\* The clock runs from 1 to MaxTime; the books of the scenarios are valid until 2.
MaxTime == 3
\* The largest count asked of the code generator on its own (the pattern has 3 codes).
MaxCount == 4

\* Calls one request handler may issue one after the other.
MaxCalls == 2

\* Coupons a book starts with where their number varies.
MaxCoupons == 3

Procs == {"p1", "p2", "p3"}

\* ----------------------------------------------------------------- values

\* A nullable column or an optional value: <<>> is null, <<v>> is v.
NULL == <<>>

Some(v) == <<v>>

IsNull(x) == x = NULL

Val(x) == x[1]

\* CouponStatus
AVAILABLE == "available"

ASSIGNED == "assigned"

LOCKED == "locked"

REDEEMED == "redeemed"

EXPIRED == "expired"

CouponStatus == {AVAILABLE, ASSIGNED, LOCKED, REDEEMED, EXPIRED}

\* CacheFeature
COUPON_LOCK == "coupon-lock"

COUPON_REDEEM == "coupon-redeem"

\* Outcomes of a call as the exception filter reports them.
OK == "ok"

Conflict == "Conflict"

Business == "Business"

NotFound == "NotFound"

Internal == "Internal"

Validation == "Validation"

\* PostgresErrorCode: the codes of the database errors the statements can raise.
UNIQUE_VIOLATION == "23505"

DEADLOCK_DETECTED == "40P01"

LOCK_NOT_AVAILABLE == "55P03"

\* An error of the cache client.
CACHE_ERROR == "cache"

\* ------------------------------------------------------------------ state

VARIABLES
    books,        \* coupon_books rows, by id
    coupons,      \* coupons rows: a sequence, a row's id is its index
    assignments,  \* coupon_assignments rows: a sequence, a row's id is its index
    rowLocks,     \* row locks held by open transactions
    dedup,        \* keys of the dedup bucket of the cache
    cacheLocks,   \* keys of the locks bucket of the cache, with the call that set each
    cacheFaulty,  \* whether cache commands may fail (fixed by Init)
    now,          \* the clock
    pr            \* the request handlers

dbVars == <<books, coupons, assignments, rowLocks>>

cacheVars == <<dedup, cacheLocks, cacheFaulty>>

vars == <<books, coupons, assignments, rowLocks, dedup, cacheLocks, cacheFaulty, now, pr>>

\* ------------------------------------------------------------- rows, keys

Coupon(code, book) == [code |-> code, book |-> book, status |-> AVAILABLE, version |-> 1]

CouponAssignment(couponId, userId) ==
    [couponId |-> couponId, userId |-> userId, assignedAt |-> now,
     lockedAt |-> NULL, lockExpiresAt |-> NULL, redeemedAt |-> NULL,
     redemptionCount |-> 0, metadata |-> NULL]

CouponBook(maxRedemptions, maxAssignments, pattern, maxCodes, total) ==
    [isActive |-> TRUE, validFrom |-> 0, validUntil |-> 2,
     maxRedemptionsPerUser |-> maxRedemptions, maxAssignmentsPerUser |-> maxAssignments,
     codePattern |-> pattern, maxCodes |-> maxCodes, totalCodes |-> total]

CouponIds == DOMAIN coupons

AssignmentIds == DOMAIN assignments

\* WHERE c.code = $1
CouponsByCode(code) == {i \in CouponIds : coupons[i].code = code}

\* ON c.id = a.coupon_id AND a.user_id = $2
AssignmentsOf(cid, user) ==
    {j \in AssignmentIds : assignments[j].couponId = cid /\ assignments[j].userId = user}

Min(S) == CHOOSE x \in S : \A y \in S : x <= y

\* CacheKeyBuilder.dedup / CacheKeyBuilder.lock: `${feature}:${resource}`
CacheKey(feature, resource) == <<feature, resource>>

\* buildCouponUserKey: `${code}:${userId}`
buildCouponUserKey(code, user) == <<code, user>>

\* The codes the model lets a book's pattern expand to: the letter of the pattern
\* and one of its digits.
PatternCodes(pattern) == {pattern \o d : d \in {"0", "1", "2"}}

\* The key of the lock on a coupon code alone.
CodeKey(code) == <<code, "">>

\* --------------------------------------------------------------- row locks

FOR_UPDATE == "update"

NO_KEY_UPDATE == "nokeyupdate"

KEY_SHARE == "keyshare"

\* PostgreSQL's row-level lock conflicts among the modes the statements take.
LockConflict(held, wanted) ==
    \/ held = FOR_UPDATE
    \/ wanted = FOR_UPDATE
    \/ (held = NO_KEY_UPDATE /\ wanted = NO_KEY_UPDATE)

RowLock(p, tbl, id, mode) == [tx |-> p, tbl |-> tbl, id |-> id, mode |-> mode]

\* Another open transaction holds a conflicting lock on the row.
Contended(p, tbl, id, mode) ==
    \E l \in rowLocks : l.tbl = tbl /\ l.id = id /\ l.tx # p /\ LockConflict(l.mode, mode)

\* COMMIT or ROLLBACK: the transaction's row locks go.
ReleaseRowLocks(p) == {l \in rowLocks : l.tx # p}

\* ------------------------------------------------------------- processes

IdleProc ==
    [pc |-> "idle", op |-> "none", code |-> "", user |-> "", book |-> "",
     meta |-> NULL, dur |-> 0, cid |-> 0, aid |-> 0, status |-> "", version |-> 0,
     count |-> 0, max |-> NULL, total |-> 0, codes |-> <<>>, inserted |-> <<>>,
     result |-> "none", err |-> "", resp |-> NULL, calls |-> 0, budget |-> 0,
     setFlag |-> FALSE, acquired |-> FALSE, released |-> FALSE, wrote |-> FALSE,
     afterFull |-> FALSE, locked |-> NULL, watch |-> FALSE, pre |-> NULL,
     batch |-> 0, repeat |-> FALSE, attempts |-> 0,
     dto |-> NULL]

\* What the stores hold for a call when it is issued: the coupon of the code, the
\* caller's assignment of it, the caller's dedup flag and the book's validity.
PreState(code, user, book) ==
    LET found == CouponsByCode(code)
        c == Min(found)
        owned == IF found = {} THEN {} ELSE AssignmentsOf(c, user)
        b == IF book # "" THEN book ELSE IF found # {} THEN coupons[c].book ELSE ""
    IN  [status |-> IF found = {} THEN "" ELSE coupons[c].status,
         version |-> IF found = {} THEN 0 ELSE coupons[c].version,
         owned |-> owned # {},
         count |-> IF owned = {} THEN 0 ELSE assignments[Min(owned)].redemptionCount,
         flag |-> <<COUPON_REDEEM, <<code, user>>>> \in dedup,
         active |-> IF b = "" THEN TRUE ELSE books[b].isActive,
         expired |-> IF b = "" THEN FALSE ELSE now > books[b].validUntil]

\* A call begins: the handler's locals are fresh.  A watched caller notes what the
\* stores held when it issued the call.
Begin(p, op, code, user, book) ==
    [IdleProc EXCEPT !.pc = "start", !.op = op, !.code = code, !.user = user, !.book = book,
                     !.calls = pr[p].calls + 1, !.budget = pr[p].budget,
                     !.watch = pr[p].watch,
                     !.pre = IF pr[p].watch THEN Some(PreState(code, user, book)) ELSE NULL]

CanStart(p) == pr[p].pc = "idle" /\ pr[p].calls < pr[p].budget

\* The call returns or throws: `res` is what the caller sees.
Return(p, res) == [pr[p] EXCEPT !.pc = "idle", !.result = res]

\* The call throws an error that is not an HttpException: the filter answers Internal.
Throw(p, err) == [pr[p] EXCEPT !.pc = "idle", !.result = Internal, !.err = err]

Set(p, r) == pr' = [pr EXCEPT ![p] = r]

\* Whether a cache command of this step fails (a cache that is not faulty never does).
CacheOutcomes == IF cacheFaulty THEN {TRUE, FALSE} ELSE {TRUE}

\* ------------------------------------------------------------ cache plane

\* CacheService.hasDedup: EXISTS on the dedup bucket.
hasDedup(feature, hash) == CacheKey(feature, hash) \in dedup

\* CacheService.setDedup: a plain SET with a TTL (no NX) on the dedup bucket.
setDedup(feature, hash) == dedup \cup {CacheKey(feature, hash)}

LockHeld(feature, resource) == \E l \in cacheLocks : l.key = CacheKey(feature, resource)

\* CacheService.acquireLock: SET key EX ttl NX; the command's own failure is "not acquired".
acquireLock(p, feature, resource, works) ==
    IF works /\ ~LockHeld(feature, resource)
    THEN cacheLocks \cup {[key |-> CacheKey(feature, resource), by |-> <<p, pr[p].calls>>]}
    ELSE cacheLocks

\* A release that leaves the key in place.
KeepLock(feature, resource, works) == cacheLocks

\* CacheService.releaseLock: DEL key, whoever set it; a failure is logged and swallowed.
releaseLock(feature, resource, works) ==
    IF works THEN {l \in cacheLocks : l.key # CacheKey(feature, resource)} ELSE cacheLocks

\* ------------------------------------------------------ coupons: validators

\* A redeem that never finds the assignment used up.
NeverFull(currentCount, maxRedemptions) == FALSE

\* isFullyRedeemed: maxRedemptions !== null && currentCount >= maxRedemptions
isFullyRedeemed(currentCount, maxRedemptions) ==
    ~IsNull(maxRedemptions) /\ currentCount >= Val(maxRedemptions)

getStatusAfterRedemption(fullyRedeemed) == IF fullyRedeemed THEN REDEEMED ELSE ASSIGNED

isValidStatusForRedemption(status) ==
    IF status = REDEEMED THEN FALSE ELSE status = ASSIGNED \/ status = LOCKED

\* A redeem that never finds the redemption limit reached.
NoLimit(currentCount, maxRedemptions) == FALSE

\* redeemCouponInTransaction: the redemption limit is already reached.
LimitReached(currentCount, maxRedemptions) ==
    ~IsNull(maxRedemptions) /\ currentCount >= Val(maxRedemptions)

calculateRemainingRedemptions(maxRedemptions, redemptionCount) ==
    IF IsNull(maxRedemptions) THEN NULL ELSE Some(Val(maxRedemptions) - redemptionCount)

\* ------------------------------------------------------------------ Redeem

\* Another call is redeeming the same code for the same user right now.
RedeemInFlight(p, code, user) ==
    \E q \in Procs \ {p} :
        pr[q].pc # "idle" /\ pr[q].op = "redeem" /\ pr[q].code = code /\ pr[q].user = user

\* The user's assignment of the code is used up and its coupon is REDEEMED.
UsedUp(code, user) ==
    \E c \in CouponsByCode(code) :
        /\ coupons[c].status = REDEEMED
        /\ \E j \in AssignmentsOf(c, user) : assignments[j].redemptionCount >= 1

\* redeemCoupon is called.
RedeemStart(p, code, user, meta) ==
    /\ CanStart(p)
    /\ Set(p, [Begin(p, "redeem", code, user, "") EXCEPT
                 !.pc = "r_hasDedup", !.meta = meta,
                 !.afterFull = UsedUp(code, user) /\ ~RedeemInFlight(p, code, user)])
    /\ UNCHANGED <<dbVars, cacheVars, now>>

\* checkAndSetRedemptionDedup, first await: hasDedup.  A cache failure is thrown on.
RedeemHasDedup(p) ==
    /\ pr[p].pc = "r_hasDedup"
    /\ \E works \in CacheOutcomes :
          Set(p, IF ~works THEN Throw(p, CACHE_ERROR)
                 ELSE IF hasDedup(COUPON_REDEEM, buildCouponUserKey(pr[p].code, pr[p].user))
                      THEN Return(p, Conflict)
                      ELSE [pr[p] EXCEPT !.pc = "r_setDedup"])
    /\ UNCHANGED <<dbVars, cacheVars, now>>

\* checkAndSetRedemptionDedup, second await: setDedup with TTL 60.
RedeemSetDedup(p) ==
    /\ pr[p].pc = "r_setDedup"
    /\ \E works \in CacheOutcomes :
          IF works
          THEN /\ dedup' = setDedup(COUPON_REDEEM, buildCouponUserKey(pr[p].code, pr[p].user))
               /\ Set(p, [pr[p] EXCEPT !.pc = "r_acquire", !.setFlag = TRUE])
          ELSE /\ dedup' = dedup
               /\ Set(p, Throw(p, CACHE_ERROR))
    /\ UNCHANGED <<dbVars, cacheLocks, cacheFaulty, now>>

\* A fail-open acquisition: a call whose cache command failed goes on without the key.
RedeemAcquireOpen(p) ==
    /\ pr[p].pc = "r_acquire"
    /\ \E works \in CacheOutcomes :
          LET key == buildCouponUserKey(pr[p].code, pr[p].user)
              got == works /\ ~LockHeld(COUPON_REDEEM, key)
          IN  /\ cacheLocks' = acquireLock(p, COUPON_REDEEM, key, works)
              /\ Set(p, IF got \/ ~works THEN [pr[p] EXCEPT !.pc = "r_select", !.acquired = got]
                        ELSE Return(p, Conflict))
    /\ UNCHANGED <<dbVars, dedup, cacheFaulty, now>>

\* acquireRedemptionLock: acquireLock with TTL 10; not acquired is a Conflict.
RedeemAcquire(p) ==
    /\ pr[p].pc = "r_acquire"
    /\ \E works \in CacheOutcomes :
          LET key == buildCouponUserKey(pr[p].code, pr[p].user)
              got == works /\ ~LockHeld(COUPON_REDEEM, key)
          IN  /\ cacheLocks' = acquireLock(p, COUPON_REDEEM, key, works)
              /\ Set(p, IF got THEN [pr[p] EXCEPT !.pc = "r_select", !.acquired = TRUE]
                        ELSE Return(p, Conflict))
    /\ UNCHANGED <<dbVars, dedup, cacheFaulty, now>>

\* The rows of redeem's SELECT: the coupon of the code joined with its book and the
\* user's assignment rows.
RedeemRows(code, user) ==
    {<<c, j>> \in CouponIds \X AssignmentIds : c \in CouponsByCode(code) /\ j \in AssignmentsOf(c, user)}

\* The row locks SELECT ... FOR UPDATE NOWAIT takes: a lock clause without a table list
\* locks the rows of every table of the join.
RedeemRowLocks(p, rows) ==
    UNION {{RowLock(p, "coupon", r[1], FOR_UPDATE),
            RowLock(p, "book", coupons[r[1]].book, FOR_UPDATE),
            RowLock(p, "assignment", r[2], FOR_UPDATE)} : r \in rows}

\* NOWAIT: one of the rows is locked by another transaction.
NoWaitFails(p, locks) == \E l \in locks : Contended(p, l.tbl, l.id, l.mode)

\* redeemCouponInTransaction up to the compare-and-set: the SELECT and the checks.
\* A throw rolls the transaction back: the row locks just taken go with it.
RedeemSelect(p) ==
    /\ pr[p].pc = "r_select"
    /\ LET rows == RedeemRows(pr[p].code, pr[p].user)
           locks == RedeemRowLocks(p, rows)
           c == Min({r[1] : r \in rows})
           j == Min({r[2] : r \in {x \in rows : x[1] = c}})
           max == books[coupons[c].book].maxRedemptionsPerUser
           thrown == IF rows = {} THEN NotFound
                     ELSE IF NoWaitFails(p, locks) THEN Internal
                     ELSE IF ~isValidStatusForRedemption(coupons[c].status) THEN Business
                     ELSE IF LimitReached(assignments[j].redemptionCount, max) THEN Business
                     ELSE OK
       IN  IF thrown # OK
           THEN /\ Set(p, [pr[p] EXCEPT !.pc = "r_release", !.result = thrown,
                                        !.err = IF thrown = Internal THEN LOCK_NOT_AVAILABLE ELSE ""])
                /\ rowLocks' = rowLocks
           ELSE /\ Set(p, [pr[p] EXCEPT !.pc = "r_update", !.cid = c, !.aid = j,
                                        !.status = coupons[c].status,
                                        !.version = coupons[c].version,
                                        !.count = assignments[j].redemptionCount,
                                        !.max = max])
                /\ rowLocks' = rowLocks \cup locks
    /\ UNCHANGED <<books, coupons, assignments, cacheVars, now>>

\* UPDATE coupons ... WHERE id = $1 AND version = $3 updates a row.
VersionMatches(cid, version) == coupons[cid].version = version

\* metadata = JSON.stringify(metadata || {})
RedeemMetadata(stored, given) == IF IsNull(given) THEN Some({}) ELSE given

\* redeemCouponInTransaction from the compare-and-set to the commit.
RedeemUpdate(p) ==
    /\ pr[p].pc = "r_update"
    /\ LET c == pr[p].cid
           j == pr[p].aid
           newCount == pr[p].count + 1
           fullyRedeemed == isFullyRedeemed(newCount, pr[p].max)
           newStatus == getStatusAfterRedemption(fullyRedeemed)
       IN  IF ~VersionMatches(c, pr[p].version)
           THEN /\ Set(p, [pr[p] EXCEPT !.pc = "r_release", !.result = Conflict])
                /\ UNCHANGED <<coupons, assignments>>
           ELSE /\ coupons' = [coupons EXCEPT ![c].status = newStatus,
                                              ![c].version = coupons[c].version + 1]
                /\ assignments' = [assignments EXCEPT
                        ![j].redemptionCount = newCount,
                        ![j].redeemedAt = Some(now),
                        ![j].lockedAt = NULL,
                        ![j].lockExpiresAt = NULL,
                        ![j].metadata = RedeemMetadata(assignments[j].metadata, pr[p].meta)]
                /\ Set(p, [pr[p] EXCEPT
                        !.pc = "r_release", !.result = OK, !.wrote = TRUE,
                        !.resp = Some([redemptionCount |-> newCount,
                                       redemptionsRemaining |->
                                           IF ~IsNull(pr[p].max) /\ Val(pr[p].max) # 0
                                           THEN Some(Val(pr[p].max) - newCount) ELSE NULL,
                                       fullyRedeemed |-> fullyRedeemed])])
    /\ rowLocks' = ReleaseRowLocks(p)
    /\ UNCHANGED <<books, cacheVars, now>>

\* A finally block that lets the failure of the release replace the call's outcome.
RedeemReleaseThrows(p) ==
    /\ pr[p].pc = "r_release"
    /\ \E works \in CacheOutcomes :
          /\ cacheLocks' = releaseLock(COUPON_REDEEM, buildCouponUserKey(pr[p].code, pr[p].user), works)
          /\ Set(p, [(IF works THEN Return(p, pr[p].result) ELSE Throw(p, CACHE_ERROR))
                        EXCEPT !.released = TRUE])
    /\ UNCHANGED <<dbVars, dedup, cacheFaulty, now>>

\* redeemCoupon's finally: releaseRedemptionLock; then the call returns or rethrows.
RedeemRelease(p) ==
    /\ pr[p].pc = "r_release"
    /\ \E works \in CacheOutcomes :
          cacheLocks' = releaseLock(COUPON_REDEEM, buildCouponUserKey(pr[p].code, pr[p].user), works)
    /\ Set(p, [Return(p, pr[p].result) EXCEPT !.released = TRUE])
    /\ UNCHANGED <<dbVars, dedup, cacheFaulty, now>>

Redeem(p) ==
    \/ RedeemHasDedup(p)
    \/ RedeemSetDedup(p)
    \/ RedeemAcquire(p)
    \/ RedeemSelect(p)
    \/ RedeemUpdate(p)
    \/ RedeemRelease(p)

\* ------------------------------------------------------------------ Assign

\* CouponBook.isExpired
isExpired(book) == now > book.validUntil

\* validateCouponBook: the book is active, not expired and already valid.
validateCouponBook(book) == book.isActive /\ ~isExpired(book) /\ ~(now < book.validFrom)

\* checkUserAssignmentLimit's count: the user's assignment rows on coupons of the book.
UserAssignmentCount(user, book) ==
    Cardinality({j \in AssignmentIds :
                    /\ assignments[j].userId = user
                    /\ assignments[j].couponId \in CouponIds
                    /\ coupons[assignments[j].couponId].book = book})

\* A coupon_assignments table without its unique constraint.
NoUniqueConstraint(cid, user) == FALSE

\* The unique constraint on coupon_assignments (couponId, userId) rejects the insert.
UniqueViolation(cid, user) == AssignmentsOf(cid, user) # {}

\* An update of the status that leaves the version column alone.
SetCouponStatus(cid, status) == [coupons EXCEPT ![cid].status = status]

\* An update of the lock columns that writes lockedAt only.
SetLockedAt(cid, user, lockedAt, lockExpiresAt) ==
    [j \in AssignmentIds |->
        IF j \in AssignmentsOf(cid, user)
        THEN [assignments[j] EXCEPT !.lockedAt = lockedAt]
        ELSE assignments[j]]

\* manager.update(Coupon, id, { status }): TypeORM also increments the version column.
UpdateCouponStatus(cid, status) ==
    [coupons EXCEPT ![cid].status = status, ![cid].version = coupons[cid].version + 1]

\* The writes both assign transactions end with: the coupon becomes ASSIGNED and the
\* assignment row is inserted; a unique violation is thrown as it is and rolls back.
AssignWrites(p) ==
    /\ IF UniqueViolation(pr[p].cid, pr[p].user)
       THEN /\ Set(p, Throw(p, UNIQUE_VIOLATION))
            /\ UNCHANGED <<coupons, assignments>>
       ELSE /\ coupons' = UpdateCouponStatus(pr[p].cid, ASSIGNED)
            /\ assignments' = Append(assignments, CouponAssignment(pr[p].cid, pr[p].user))
            /\ Set(p, [Return(p, OK) EXCEPT !.wrote = TRUE, !.aid = Len(assignments) + 1])
    /\ rowLocks' = ReleaseRowLocks(p)

\* assignRandomCoupon is called.
AssignRandomStart(p, book, user) ==
    /\ CanStart(p)
    /\ Set(p, [Begin(p, "assignRandom", "", user, book) EXCEPT !.pc = "ar_load"])
    /\ UNCHANGED <<dbVars, cacheVars, now>>

\* findCouponBookOrFail and validateCouponBook.
AssignRandomLoad(p) ==
    /\ pr[p].pc = "ar_load"
    /\ LET book == books[pr[p].book]
       IN  Set(p, IF ~validateCouponBook(book) THEN Return(p, Business)
                  ELSE [pr[p] EXCEPT
                          !.pc = IF IsNull(book.maxAssignmentsPerUser) THEN "ar_select" ELSE "ar_limit",
                          !.max = book.maxAssignmentsPerUser])
    /\ UNCHANGED <<dbVars, cacheVars, now>>

\* checkUserAssignmentLimit when the book has a limit: the count, outside any transaction.
AssignRandomLimit(p) ==
    /\ pr[p].pc = "ar_limit"
    /\ Set(p, IF UserAssignmentCount(pr[p].user, pr[p].book) >= Val(pr[p].max)
              THEN Return(p, Business)
              ELSE [pr[p] EXCEPT !.pc = "ar_select"])
    /\ UNCHANGED <<dbVars, cacheVars, now>>

\* The AVAILABLE rows of the book, locked by another transaction or not.
AllAvailable(p, book) ==
    {c \in CouponIds : coupons[c].book = book /\ coupons[c].status = AVAILABLE}

\* The rows SELECT ... WHERE status = AVAILABLE ... FOR UPDATE SKIP LOCKED may return.
SkipLockedCandidates(p, book) ==
    {c \in CouponIds : /\ coupons[c].book = book
                       /\ coupons[c].status = AVAILABLE
                       /\ ~Contended(p, "coupon", c, FOR_UPDATE)}

\* assignRandomCouponInTransaction: the SELECT (ORDER BY RANDOM() LIMIT 1).
AssignRandomSelect(p) ==
    /\ pr[p].pc = "ar_select"
    /\ LET free == SkipLockedCandidates(p, pr[p].book)
       IN  IF free = {}
           THEN /\ Set(p, Return(p, Business))
                /\ rowLocks' = rowLocks
           ELSE \E c \in free :
                   /\ Set(p, [pr[p] EXCEPT !.pc = "ar_write", !.cid = c, !.code = coupons[c].code])
                   /\ rowLocks' = rowLocks \cup {RowLock(p, "coupon", c, FOR_UPDATE)}
    /\ UNCHANGED <<books, coupons, assignments, cacheVars, now>>

\* assignRandomCouponInTransaction: the update, the insert and the commit.
AssignRandomWrite(p) ==
    /\ pr[p].pc = "ar_write"
    /\ AssignWrites(p)
    /\ UNCHANGED <<books, cacheVars, now>>

AssignRandom(p) ==
    \/ AssignRandomLoad(p)
    \/ AssignRandomLimit(p)
    \/ AssignRandomSelect(p)
    \/ AssignRandomWrite(p)

\* assignSpecificCoupon is called.
AssignSpecificStart(p, code, user) ==
    /\ CanStart(p)
    /\ Set(p, [Begin(p, "assignSpecific", code, user, "") EXCEPT !.pc = "as_load"])
    /\ UNCHANGED <<dbVars, cacheVars, now>>

\* couponRepo.findOne({ where: { code }, relations: ['couponBook'] }) and
\* validateCouponBook: the coupon entity, its status included, is read here.
AssignSpecificLoad(p) ==
    /\ pr[p].pc = "as_load"
    /\ LET found == CouponsByCode(pr[p].code)
           c == Min(found)
           book == books[coupons[c].book]
       IN  Set(p, IF found = {} THEN Return(p, NotFound)
                  ELSE IF ~validateCouponBook(book) THEN Return(p, Business)
                  ELSE [pr[p] EXCEPT
                          !.pc = IF IsNull(book.maxAssignmentsPerUser) THEN "as_select" ELSE "as_limit",
                          !.cid = c, !.book = coupons[c].book, !.status = coupons[c].status,
                          !.max = book.maxAssignmentsPerUser])
    /\ UNCHANGED <<dbVars, cacheVars, now>>

AssignSpecificLimit(p) ==
    /\ pr[p].pc = "as_limit"
    /\ Set(p, IF UserAssignmentCount(pr[p].user, pr[p].book) >= Val(pr[p].max)
              THEN Return(p, Business)
              ELSE [pr[p] EXCEPT !.pc = "as_select"])
    /\ UNCHANGED <<dbVars, cacheVars, now>>

\* The status assignSpecificCouponInTransaction checks: coupon.status of the entity
\* passed in, not of the row it has just locked.
StatusChecked(p) == pr[p].status

\* assignSpecificCouponInTransaction: SELECT ... FOR UPDATE NOWAIT and the status check.
AssignSpecificSelect(p) ==
    /\ pr[p].pc = "as_select"
    /\ IF Contended(p, "coupon", pr[p].cid, FOR_UPDATE)
       THEN /\ Set(p, Throw(p, LOCK_NOT_AVAILABLE))
            /\ rowLocks' = rowLocks
       ELSE IF StatusChecked(p) # AVAILABLE
       THEN /\ Set(p, [Return(p, Business) EXCEPT !.locked = Some(coupons[pr[p].cid].status)])
            /\ rowLocks' = rowLocks
       ELSE /\ Set(p, [pr[p] EXCEPT !.pc = "as_write",
                                    !.locked = Some(coupons[pr[p].cid].status)])
            /\ rowLocks' = rowLocks \cup {RowLock(p, "coupon", pr[p].cid, FOR_UPDATE)}
    /\ UNCHANGED <<books, coupons, assignments, cacheVars, now>>

\* assignSpecificCouponInTransaction: the update, the insert and the commit.
AssignSpecificWrite(p) ==
    /\ pr[p].pc = "as_write"
    /\ AssignWrites(p)
    /\ UNCHANGED <<books, cacheVars, now>>

AssignSpecific(p) ==
    \/ AssignSpecificLoad(p)
    \/ AssignSpecificLimit(p)
    \/ AssignSpecificSelect(p)
    \/ AssignSpecificWrite(p)

\* ---------------------------------------------------------- Lock and Unlock

\* The rows of lock's and unlock's SELECT: the coupon of the code joined with the
\* user's assignment rows.
OwnedRows(code, user) ==
    {<<c, j>> \in CouponIds \X AssignmentIds : c \in CouponsByCode(code) /\ j \in AssignmentsOf(c, user)}

OwnedRowLocks(p, rows) ==
    UNION {{RowLock(p, "coupon", r[1], FOR_UPDATE),
            RowLock(p, "assignment", r[2], FOR_UPDATE)} : r \in rows}

\* lockCoupon is called.
LockStart(p, code, user, duration) ==
    /\ CanStart(p)
    /\ Set(p, [Begin(p, "lock", code, user, "") EXCEPT !.pc = "l_acquire", !.dur = duration])
    /\ UNCHANGED <<dbVars, cacheVars, now>>

\* acquireLockLock: the cache lock on the code, TTL the lock duration.
LockAcquire(p) ==
    /\ pr[p].pc = "l_acquire"
    /\ \E works \in CacheOutcomes :
          LET got == works /\ ~LockHeld(COUPON_LOCK, CodeKey(pr[p].code))
          IN  /\ cacheLocks' = acquireLock(p, COUPON_LOCK, CodeKey(pr[p].code), works)
              /\ Set(p, IF got THEN [pr[p] EXCEPT !.pc = "l_select", !.acquired = TRUE]
                        ELSE Return(p, Conflict))
    /\ UNCHANGED <<dbVars, dedup, cacheFaulty, now>>

\* lockCouponInTransaction: SELECT ... FOR UPDATE NOWAIT and the status check.
LockSelect(p) ==
    /\ pr[p].pc = "l_select"
    /\ LET rows == OwnedRows(pr[p].code, pr[p].user)
           locks == OwnedRowLocks(p, rows)
           c == Min({r[1] : r \in rows})
           thrown == IF rows = {} THEN NotFound
                     ELSE IF NoWaitFails(p, locks) THEN Internal
                     ELSE IF ~isValidStatusForRedemption(coupons[c].status) THEN Business
                     ELSE OK
       IN  IF thrown # OK
           THEN /\ Set(p, [pr[p] EXCEPT !.pc = "l_release", !.result = thrown,
                                        !.err = IF thrown = Internal THEN LOCK_NOT_AVAILABLE ELSE ""])
                /\ rowLocks' = rowLocks
           ELSE /\ Set(p, [pr[p] EXCEPT !.pc = "l_write", !.cid = c])
                /\ rowLocks' = rowLocks \cup locks
    /\ UNCHANGED <<books, coupons, assignments, cacheVars, now>>

\* An update of the lock fields that also clears the redemption count.
ResetLockFields(cid, user, lockedAt, lockExpiresAt) ==
    [j \in AssignmentIds |->
        IF j \in AssignmentsOf(cid, user)
        THEN [assignments[j] EXCEPT !.lockedAt = lockedAt, !.lockExpiresAt = lockExpiresAt,
                                    !.redemptionCount = 0]
        ELSE assignments[j]]

\* UPDATE coupon_assignments SET locked_at, lock_expires_at WHERE coupon_id AND user_id
SetLockFields(cid, user, lockedAt, lockExpiresAt) ==
    [j \in AssignmentIds |->
        IF j \in AssignmentsOf(cid, user)
        THEN [assignments[j] EXCEPT !.lockedAt = lockedAt, !.lockExpiresAt = lockExpiresAt]
        ELSE assignments[j]]

\* lockCouponInTransaction: the two updates and the commit.
LockWrite(p) ==
    /\ pr[p].pc = "l_write"
    /\ coupons' = UpdateCouponStatus(pr[p].cid, LOCKED)
    /\ assignments' = SetLockFields(pr[p].cid, pr[p].user, Some(now), Some(now + pr[p].dur))
    /\ rowLocks' = ReleaseRowLocks(p)
    /\ Set(p, [pr[p] EXCEPT !.pc = "l_release", !.result = OK, !.wrote = TRUE])
    /\ UNCHANGED <<books, cacheVars, now>>

\* lockCoupon's finally: releaseLockLock; then the call returns or rethrows.
LockRelease(p) ==
    /\ pr[p].pc = "l_release"
    /\ \E works \in CacheOutcomes :
          cacheLocks' = releaseLock(COUPON_LOCK, CodeKey(pr[p].code), works)
    /\ Set(p, [Return(p, pr[p].result) EXCEPT !.released = TRUE])
    /\ UNCHANGED <<dbVars, dedup, cacheFaulty, now>>

Lock(p) ==
    \/ LockAcquire(p)
    \/ LockSelect(p)
    \/ LockWrite(p)
    \/ LockRelease(p)

\* unlockCoupon is called.
UnlockStart(p, code, user) ==
    /\ CanStart(p)
    /\ Set(p, [Begin(p, "unlock", code, user, "") EXCEPT !.pc = "u_select"])
    /\ UNCHANGED <<dbVars, cacheVars, now>>

\* unlockCouponInTransaction: SELECT ... FOR UPDATE, which waits for the row locks,
\* and the status check.
UnlockSelect(p) ==
    /\ pr[p].pc = "u_select"
    /\ LET rows == OwnedRows(pr[p].code, pr[p].user)
           locks == OwnedRowLocks(p, rows)
           c == Min({r[1] : r \in rows})
       IN  /\ ~NoWaitFails(p, locks)
           /\ IF rows = {}
              THEN /\ Set(p, Return(p, NotFound))
                   /\ rowLocks' = rowLocks
              ELSE IF coupons[c].status # LOCKED
              THEN /\ Set(p, Return(p, Business))
                   /\ rowLocks' = rowLocks
              ELSE /\ Set(p, [pr[p] EXCEPT !.pc = "u_write", !.cid = c])
                   /\ rowLocks' = rowLocks \cup locks
    /\ UNCHANGED <<books, coupons, assignments, cacheVars, now>>

\* unlockCouponInTransaction: the two updates and the commit.
UnlockWrite(p) ==
    /\ pr[p].pc = "u_write"
    /\ coupons' = UpdateCouponStatus(pr[p].cid, ASSIGNED)
    /\ assignments' = SetLockFields(pr[p].cid, pr[p].user, NULL, NULL)
    /\ rowLocks' = ReleaseRowLocks(p)
    /\ Set(p, [Return(p, OK) EXCEPT !.wrote = TRUE])
    /\ UNCHANGED <<books, cacheVars, now>>

Unlock(p) ==
    \/ UnlockSelect(p)
    \/ UnlockWrite(p)

\* ------------------------------------------------- books: the bulk insert

\* validateBookForCodeOperation: what it throws, OK when it lets the operation on.
validateBookForCodeOperation(book, requiresCodePattern) ==
    IF ~book.isActive THEN Conflict
    ELSE IF requiresCodePattern /\ IsNull(book.codePattern) THEN Business
    ELSE IF ~requiresCodePattern /\ ~IsNull(book.codePattern) THEN Business
    ELSE OK

\* calculateCodesToGenerate
calculateCodesToGenerate(maxCodes, currentCount, requestedCount) ==
    IF IsNull(maxCodes) THEN requestedCount
    ELSE IF requestedCount <= Val(maxCodes) - currentCount THEN requestedCount
    ELSE Val(maxCodes) - currentCount

\* couponRepo.count({ where: { couponBookId } })
CouponCount(book) == Cardinality({c \in CouponIds : coupons[c].book = book})

\* The codes of a sequence, each once, in the order of their first occurrence.
RECURSIVE Distinct(_)
Distinct(codes) ==
    IF codes = <<>> THEN <<>>
    ELSE LET front == Distinct(SubSeq(codes, 1, Len(codes) - 1))
             last == codes[Len(codes)]
         IN  IF \E i \in DOMAIN front : front[i] = last THEN front ELSE Append(front, last)

\* Sequences of n different codes out of a set.
DistinctSeqs(S, n) == {q \in [1..n -> S] : \A i, j \in 1..n : i # j => q[i] # q[j]}

\* CodeGenerator.generateCodes: what a call may return, any `count` different codes of
\* the pattern in any order, or <<"throws">> when the draws run out first (the random
\* draws can repeat until the attempts are used up as soon as two codes are asked for).
generateCodes(patternCodes, count) ==
    DistinctSeqs(patternCodes, count) \cup (IF count >= 2 THEN {<<"throws">>} ELSE {})

\* An insert without the unique index on the code: every code of the list gets a row.
AllInserted(codes) == codes

\* INSERT ... ON CONFLICT (code) DO NOTHING RETURNING id: the codes that get a row.
InsertedCodes(codes) ==
    LET fresh == Distinct(codes)
    IN  SelectSeq(fresh, LAMBDA code : CouponsByCode(code) = {})

\* The codes of one batch that get a row: those of InsertedCodes that the same
\* transaction has not inserted in an earlier batch.
InsertedBatch(p, batch) ==
    SelectSeq(InsertedCodes(batch),
              LAMBDA code : \A k \in DOMAIN pr[p].inserted : pr[p].inserted[k] # code)

\* The i-th batch: codes.slice(i, i + BATCH_SIZE)
BatchOf(codes, i) ==
    SubSeq(codes, i + 1, IF i + BatchSize <= Len(codes) THEN i + BatchSize ELSE Len(codes))

\* An insert that never waits for another transaction's uncommitted rows.
NeverWaits(p, book, codes) == FALSE

\* The insert has to wait: another open transaction has inserted one of the codes and
\* not committed yet, or holds the book row against the foreign key's KEY SHARE lock.
InsertWaits(p, book, codes) ==
    \/ \E q \in Procs \ {p} :
          /\ pr[q].pc \in {"b_insert", "b_total", "b_commit"}
          /\ \E i \in DOMAIN codes, k \in DOMAIN pr[q].inserted : codes[i] = pr[q].inserted[k]
    \/ InsertedBatch(p, codes) # <<>> /\ Contended(p, "book", book, KEY_SHARE)

\* A counter written from the entity the handler loaded before its transaction.
SaveTotalCodes(p, book, uploadedCount) ==
    [books EXCEPT ![book].totalCodes = pr[p].total + uploadedCount]

\* totalCodes: () => `total_codes + ${uploadedCount}`
AddTotalCodes(p, book, uploadedCount) ==
    [books EXCEPT ![book].totalCodes = books[book].totalCodes + uploadedCount]

\* The coupons table once the inserted rows are committed.
RECURSIVE AppendCoupons(_, _, _)
AppendCoupons(rows, codes, book) ==
    IF codes = <<>> THEN rows
    ELSE AppendCoupons(Append(rows, Coupon(codes[1], book)), Tail(codes), book)

\* The same upload, the same codes for the same book, has already been answered
\* with success.
Repeated(p, book, codes) ==
    \E q \in Procs \ {p} :
        /\ pr[q].pc = "idle" /\ pr[q].op = "uploadCodes" /\ pr[q].result = OK
        /\ pr[q].book = book /\ pr[q].codes = codes

\* uploadCodes is called.
UploadCodesStart(p, book, codes) ==
    /\ CanStart(p)
    /\ Set(p, [Begin(p, "uploadCodes", "", "", book) EXCEPT
                 !.pc = "up_load", !.codes = codes, !.repeat = Repeated(p, book, codes)])
    /\ UNCHANGED <<dbVars, cacheVars, now>>

\* findBookOrFail and validateBookForCodeOperation(book, bookId, false).
UploadCodesLoad(p) ==
    /\ pr[p].pc = "up_load"
    /\ LET book == books[pr[p].book]
           thrown == validateBookForCodeOperation(book, FALSE)
       IN  Set(p, IF thrown # OK THEN Return(p, thrown)
                  ELSE [pr[p] EXCEPT !.pc = "b_insert", !.total = book.totalCodes,
                                     !.max = book.maxCodes])
    /\ UNCHANGED <<dbVars, cacheVars, now>>

\* generateCodes is called.
GenerateCodesStart(p, book, count) ==
    /\ CanStart(p)
    /\ Set(p, [Begin(p, "generateCodes", "", "", book) EXCEPT !.pc = "g_load", !.count = count])
    /\ UNCHANGED <<dbVars, cacheVars, now>>

\* findBookOrFail and validateBookForCodeOperation(book, bookId, true).
GenerateCodesLoad(p) ==
    /\ pr[p].pc = "g_load"
    /\ LET book == books[pr[p].book]
           thrown == validateBookForCodeOperation(book, TRUE)
       IN  Set(p, IF thrown # OK THEN Return(p, thrown)
                  ELSE [pr[p] EXCEPT !.pc = "g_count", !.total = book.totalCodes,
                                     !.max = book.maxCodes])
    /\ UNCHANGED <<dbVars, cacheVars, now>>

\* The count of the book's coupons, the maximum check, and CodeGenerator.generateCodes.
GenerateCodesCount(p) ==
    /\ pr[p].pc = "g_count"
    /\ LET currentCount == CouponCount(pr[p].book)
           toGenerate == calculateCodesToGenerate(pr[p].max, currentCount, pr[p].count)
       IN  IF ~IsNull(pr[p].max) /\ currentCount >= Val(pr[p].max)
           THEN Set(p, Return(p, Business))
           ELSE \E codes \in generateCodes(PatternCodes(Val(books[pr[p].book].codePattern)), toGenerate) :
                   Set(p, IF codes = <<"throws">> THEN Return(p, Validation)
                          ELSE [pr[p] EXCEPT !.pc = "b_insert", !.codes = codes])
    /\ UNCHANGED <<dbVars, cacheVars, now>>

\* A bulk insert that commits every batch on its own.
BatchAutocommit(p) ==
    /\ pr[p].pc = "b_insert"
    /\ LET batch == BatchOf(pr[p].codes, pr[p].batch)
           inserted == InsertedBatch(p, batch)
           next == pr[p].batch + BatchSize
       IN  /\ ~InsertWaits(p, pr[p].book, batch)
           /\ coupons' = AppendCoupons(coupons, inserted, pr[p].book)
           /\ Set(p, [pr[p] EXCEPT !.pc = IF next < Len(pr[p].codes) THEN "b_insert" ELSE "b_total",
                                   !.batch = next])
    /\ UNCHANGED <<books, assignments, rowLocks, cacheVars, now>>

\* batchInsertCodes: the INSERT statement of one batch; the rows stay the
\* transaction's own until it commits.
BatchInsert(p) ==
    /\ pr[p].pc = "b_insert"
    /\ LET batch == BatchOf(pr[p].codes, pr[p].batch)
           inserted == InsertedBatch(p, batch)
           next == pr[p].batch + BatchSize
       IN  /\ ~InsertWaits(p, pr[p].book, batch)
           /\ Set(p, [pr[p] EXCEPT !.pc = IF next < Len(pr[p].codes) THEN "b_insert" ELSE "b_total",
                                   !.batch = next,
                                   !.inserted = pr[p].inserted \o inserted])
           /\ rowLocks' = rowLocks \cup
                 (IF inserted = <<>> THEN {} ELSE {RowLock(p, "book", pr[p].book, KEY_SHARE)})
    /\ UNCHANGED <<books, coupons, assignments, cacheVars, now>>

\* A statement of the transaction fails (it is the victim of a deadlock, the
\* connection is lost): dataSource.transaction rolls back and rethrows.
BatchFail(p) ==
    /\ pr[p].pc \in {"b_insert", "b_total", "b_commit"}
    /\ Set(p, [Throw(p, DEADLOCK_DETECTED) EXCEPT !.inserted = <<>>])
    /\ rowLocks' = ReleaseRowLocks(p)
    /\ UNCHANGED <<books, coupons, assignments, cacheVars, now>>

\* batchInsertCodes: the UPDATE of the book's counter, which takes the book row's lock.
BatchTotal(p) ==
    /\ pr[p].pc = "b_total"
    /\ ~Contended(p, "book", pr[p].book, NO_KEY_UPDATE)
    /\ rowLocks' = rowLocks \cup {RowLock(p, "book", pr[p].book, NO_KEY_UPDATE)}
    /\ Set(p, [pr[p] EXCEPT !.pc = "b_commit"])
    /\ UNCHANGED <<books, coupons, assignments, cacheVars, now>>

\* The commit of the bulk insert and the response of uploadCodes / generateCodes.
BatchCommit(p) ==
    /\ pr[p].pc = "b_commit"
    /\ LET uploadedCount == Len(pr[p].inserted)
       IN  /\ coupons' = AppendCoupons(coupons, pr[p].inserted, pr[p].book)
           /\ books' = AddTotalCodes(p, pr[p].book, uploadedCount)
           /\ Set(p, [Return(p, OK) EXCEPT
                   !.wrote = TRUE,
                   !.resp = Some([uploadedCount |-> uploadedCount,
                                  duplicateCount |-> Len(pr[p].codes) - uploadedCount,
                                  totalCodes |-> pr[p].total + uploadedCount])])
    /\ rowLocks' = ReleaseRowLocks(p)
    /\ UNCHANGED <<assignments, cacheVars, now>>

UploadCodes(p) ==
    \/ UploadCodesLoad(p)
    \/ BatchInsert(p)
    \/ BatchTotal(p)
    \/ BatchCommit(p)
    \/ BatchFail(p)

GenerateCodes(p) ==
    \/ GenerateCodesLoad(p)
    \/ GenerateCodesCount(p)

\* ------------------------------------------------- books: deactivation

\* deactivateCouponBook is called.
DeactivateBookStart(p, book) ==
    /\ CanStart(p)
    /\ Set(p, [Begin(p, "deactivateBook", "", "", book) EXCEPT !.pc = "d_load"])
    /\ UNCHANGED <<dbVars, cacheVars, now>>

\* findBookOrFail and the check that the book is still active; the entity is kept.
DeactivateBookLoad(p) ==
    /\ pr[p].pc = "d_load"
    /\ LET b == pr[p].book
       IN  Set(p, IF b \notin DOMAIN books THEN Return(p, NotFound)
                  ELSE IF ~books[b].isActive THEN Return(p, Conflict)
                  ELSE [pr[p] EXCEPT !.pc = "d_save", !.total = books[b].totalCodes])
    /\ UNCHANGED <<dbVars, cacheVars, now>>

\* book.isActive = false; couponBookRepo.save(book): the columns in which the entity
\* differs from the stored row are updated, once no other transaction locks the row.
DeactivateBookSave(p) ==
    /\ pr[p].pc = "d_save"
    /\ ~Contended(p, "book", pr[p].book, NO_KEY_UPDATE)
    /\ books' = [books EXCEPT ![pr[p].book].isActive = FALSE,
                              ![pr[p].book].totalCodes = pr[p].total]
    /\ Set(p, [Return(p, OK) EXCEPT !.wrote = TRUE])
    /\ UNCHANGED <<coupons, assignments, rowLocks, cacheVars, now>>

DeactivateBook(p) ==
    \/ DeactivateBookLoad(p)
    \/ DeactivateBookSave(p)

\* -------------------------------------------------------------- the cache

\* A key of the cache goes without a command of the service: its TTL runs out, it is
\* evicted, or the cache restarts.
CacheLoss ==
    /\ cacheFaulty
    /\ \/ \E k \in dedup : dedup' = dedup \ {k} /\ cacheLocks' = cacheLocks
       \/ \E l \in cacheLocks : cacheLocks' = cacheLocks \ {l} /\ dedup' = dedup
    /\ UNCHANGED <<dbVars, cacheFaulty, now, pr>>

\* The TTL of a dedup flag or of a lock key runs out.
TtlExpire ==
    /\ \/ \E k \in dedup : dedup' = dedup \ {k} /\ cacheLocks' = cacheLocks
       \/ \E l \in cacheLocks : cacheLocks' = cacheLocks \ {l} /\ dedup' = dedup
    /\ UNCHANGED <<dbVars, cacheFaulty, now, pr>>

\* Time passes: new Date() of later statements is later.
Tick ==
    /\ now < MaxTime
    /\ now' = now + 1
    /\ UNCHANGED <<dbVars, cacheVars, pr>>

\* ---------------------------------------------- S2: the race on one coupon

\* A book with maxRedemptionsPerUser = 1 holds one code, X, which is assigned to u2
\* (ASSIGNED, or LOCKED by u2); every handler issues one Redeem(X, u2).
InitS2 ==
    /\ books = [b \in {"b1"} |-> CouponBook(Some(1), NULL, NULL, NULL, 1)]
    /\ now = 1
    /\ \E locked \in BOOLEAN :
          /\ coupons = <<[Coupon("X", "b1") EXCEPT
                            !.status = IF locked THEN LOCKED ELSE ASSIGNED,
                            !.version = IF locked THEN 3 ELSE 2]>>
          /\ assignments = <<[CouponAssignment(1, "u2") EXCEPT
                                !.lockedAt = IF locked THEN Some(now) ELSE NULL,
                                !.lockExpiresAt = IF locked THEN Some(now + 1) ELSE NULL]>>
    /\ rowLocks = {}
    /\ dedup = {}
    /\ cacheLocks = {}
    /\ cacheFaulty = FALSE
    /\ pr = [p \in Procs |-> [IdleProc EXCEPT !.budget = 1]]

NextS2 == \E p \in Procs : RedeemStart(p, "X", "u2", NULL) \/ Redeem(p)

SpecS2 == InitS2 /\ [][NextS2]_vars

AllReturned == \A p \in Procs : pr[p].pc = "idle" /\ pr[p].calls = pr[p].budget

Succeeded == {p \in Procs : pr[p].pc = "idle" /\ pr[p].result = OK}

\* C1: of the concurrent Redeem calls on one coupon assigned to the caller (limit 1),
\* exactly one succeeds with fullyRedeemed = true and redemptionCount = 1, every other
\* call returns Conflict, and the coupon ends REDEEMED with redemptionCount = 1.
C1_OneWinnerOthersConflict ==
    AllReturned =>
        /\ Cardinality(Succeeded) = 1
        /\ \A p \in Succeeded :
              Val(pr[p].resp).fullyRedeemed /\ Val(pr[p].resp).redemptionCount = 1
        /\ \A p \in Procs \ Succeeded : pr[p].result = Conflict
        /\ coupons[1].status = REDEEMED
        /\ assignments[1].redemptionCount = 1

\* --------------------------------------- the coupon service on one coupon

\* The user a request handler acts for: the first handler sends one request of
\* user u1, the others send up to MaxCalls requests of user u2.
UserOf(p) == IF p = "p1" THEN "u1" ELSE "u2"

\* A book with one redemption and one assignment per user and one uploaded code, not
\* assigned yet.
InitCoupon ==
    /\ books = [b \in {"b1"} |-> CouponBook(Some(1), Some(1), NULL, NULL, 1)]
    /\ coupons = <<Coupon("X", "b1")>>
    /\ assignments = <<>>
    /\ rowLocks = {}
    /\ dedup = {}
    /\ cacheLocks = {}
    /\ cacheFaulty = FALSE
    /\ now = 1
    /\ pr = [p \in Procs |-> [IdleProc EXCEPT !.budget = IF p = "p1" THEN 1 ELSE MaxCalls]]

NextCoupon ==
    \/ \E p \in Procs :
          \/ AssignRandomStart(p, "b1", UserOf(p))
          \/ AssignRandom(p)
          \/ AssignSpecificStart(p, "X", UserOf(p))
          \/ AssignSpecific(p)
          \/ LockStart(p, "X", UserOf(p), 1)
          \/ Lock(p)
          \/ UnlockStart(p, "X", UserOf(p))
          \/ Unlock(p)
          \/ RedeemStart(p, "X", UserOf(p), NULL)
          \/ Redeem(p)

SpecCoupon == InitCoupon /\ [][NextCoupon]_vars

\* C3: no coupon has assignment rows for two different users.
C3_OneUserPerCoupon ==
    \A i, j \in AssignmentIds :
        assignments[i].couponId = assignments[j].couponId
            => assignments[i].userId = assignments[j].userId

\* C5: there is at most one assignment row for each pair of a coupon and a user.
C5_OneRowPerCouponAndUser ==
    \A i, j \in AssignmentIds :
        (/\ assignments[i].couponId = assignments[j].couponId
         /\ assignments[i].userId = assignments[j].userId) => i = j

\* A second assignment of the coupon to the same user reached its insert and was
\* rejected by the unique constraint, the first row being there.
C5_Witness ==
    \E p \in Procs :
        /\ pr[p].pc = "idle"
        /\ pr[p].op \in {"assignRandom", "assignSpecific"}
        /\ pr[p].err = UNIQUE_VIOLATION
        /\ Cardinality(AssignmentsOf(pr[p].cid, pr[p].user)) = 1

\* A call of Lock or Redeem has returned.
Returned(p) == pr[p].pc = "idle" /\ pr[p].op \in {"lock", "redeem"}

\* C9: a Lock or Redeem call that acquired its cache lock has released it when it
\* returns, whatever the path (no key it set is left in the cache), and a call that did
\* not acquire the lock has performed no release.
C9_ReleaseIffAcquired ==
    \A p \in Procs :
        Returned(p) =>
            /\ pr[p].acquired <=> pr[p].released
            /\ ~\E l \in cacheLocks : l.by = <<p, pr[p].calls>>

\* A Lock that acquired the lock and failed in its transaction, a Redeem that acquired
\* the lock, and a call that was refused the lock have all returned.
C9_Witness ==
    \E p, q, r \in Procs :
        /\ Returned(p) /\ pr[p].op = "lock" /\ pr[p].acquired /\ pr[p].released
        /\ pr[p].result \in {NotFound, Business, Internal}
        /\ Returned(q) /\ pr[q].op = "redeem" /\ pr[q].acquired /\ pr[q].released
        /\ Returned(r) /\ ~pr[r].acquired /\ ~pr[r].released /\ pr[r].result = Conflict

\* The status changes the operations may make.
LegalTransition(from, to, op) ==
    \/ from = AVAILABLE /\ to = ASSIGNED /\ op \in {"assignRandom", "assignSpecific"}
    \/ from = ASSIGNED /\ to = LOCKED /\ op = "lock"
    \/ from = LOCKED /\ to = ASSIGNED /\ op = "unlock"
    \/ from \in {ASSIGNED, LOCKED} /\ to \in {ASSIGNED, REDEEMED} /\ op = "redeem"

\* C10: every change of a coupon's status is a legal transition made by the operation
\* it belongs to; in particular no status returns to AVAILABLE and, in a book with a
\* finite redemption limit, the status of a REDEEMED coupon never changes.
C10_LegalTransitions ==
    [][\A c \in DOMAIN coupons :
          coupons'[c].status # coupons[c].status =>
              \E p \in Procs :
                  /\ pr'[p] # pr[p]
                  /\ LegalTransition(coupons[c].status, coupons'[c].status, pr[p].op)]_vars

\* ------------------------------ assign and redeem over a cache that fails

InitLossy ==
    /\ books = [b \in {"b1"} |-> CouponBook(Some(1), Some(1), NULL, NULL, 1)]
    /\ coupons = <<Coupon("X", "b1")>>
    /\ assignments = <<>>
    /\ rowLocks = {}
    /\ dedup = {}
    /\ cacheLocks = {}
    /\ cacheFaulty = TRUE
    /\ now = 1
    /\ pr = [p \in Procs |-> [IdleProc EXCEPT !.budget = IF p = "p1" THEN 1 ELSE MaxCalls]]

NextLossy ==
    \/ \E p \in Procs :
          \/ AssignSpecificStart(p, "X", UserOf(p))
          \/ AssignSpecific(p)
          \/ RedeemStart(p, "X", UserOf(p), NULL)
          \/ Redeem(p)
    \/ CacheLoss

SpecLossy == InitLossy /\ [][NextLossy]_vars

\* C2: in every reachable state, whatever the interleaving of the Redeem calls and
\* whether the cache admits one caller, several, or loses its keys and commands, the
\* redemption count of an assignment is at most the book's maxRedemptionsPerUser.
C2_RedemptionLimit ==
    \A j \in AssignmentIds :
        LET max == books[coupons[assignments[j].couponId].book].maxRedemptionsPerUser
        IN  ~IsNull(max) => assignments[j].redemptionCount <= Val(max)

\* One Redeem has used the assignment up and another, admitted by the cache, was
\* refused by the transaction while the coupon's status would still have let it on.
C2_Witness ==
    \E p, q \in Procs :
        /\ p # q
        /\ pr[p].pc = "idle" /\ pr[p].op = "redeem" /\ pr[p].result = OK
        /\ pr[q].pc = "idle" /\ pr[q].op = "redeem" /\ pr[q].acquired
        /\ pr[q].result = Business
        /\ \E c \in CouponsByCode(pr[q].code) :
              /\ coupons[c].status = ASSIGNED
              /\ \E j \in AssignmentsOf(c, pr[q].user) : assignments[j].redemptionCount = 1

\* --------------------------------- S4: random assignment by distinct users

CodeNames == <<"X", "Y", "Z", "W", "V">>

\* Every request handler acts for a user of its own.
OwnUserOf(p) == "u-" \o p

\* A book with K AVAILABLE coupons, K from none to MaxCoupons; N of the handlers, one
\* at least, call once.
InitS4 ==
    /\ \E maxAssignments \in {NULL, Some(1)}, K \in 0..MaxCoupons :
          /\ books = [b \in {"b1"} |-> CouponBook(Some(1), maxAssignments, NULL, NULL, K)]
          /\ coupons = [i \in 1..K |-> Coupon(CodeNames[i], "b1")]
    /\ assignments = <<>>
    /\ rowLocks = {}
    /\ dedup = {}
    /\ cacheLocks = {}
    /\ cacheFaulty = FALSE
    /\ now = 1
    /\ \E callers \in SUBSET Procs \ {{}} :
          pr = [p \in Procs |-> [IdleProc EXCEPT !.budget = IF p \in callers THEN 1 ELSE 0]]

NextS4 == \E p \in Procs : AssignRandomStart(p, "b1", OwnUserOf(p)) \/ AssignRandom(p)

SpecS4 == InitS4 /\ [][NextS4]_vars

\* The handlers that call.
Callers == {p \in Procs : pr[p].budget = 1}

UploadLists == {<<"A", "B">>, <<"B", "G0", "B">>}

\* Book b1 takes uploads and has X assigned to u2 and Y AVAILABLE; book b2 generates
\* its codes from a pattern and has none yet.  Two handlers send one bulk request
\* each, the third is a user's.
InitBooks ==
    /\ now = 1
    /\ books = [b \in {"b1", "b2"} |->
                   IF b = "b1" THEN CouponBook(Some(1), Some(2), NULL, NULL, 2)
                   ELSE CouponBook(Some(1), Some(2), Some("G"), Some(2), 0)]
    /\ coupons = <<[Coupon("X", "b1") EXCEPT !.status = ASSIGNED, !.version = 2],
                   Coupon("Y", "b1")>>
    /\ assignments = <<CouponAssignment(1, "u2")>>
    /\ rowLocks = {}
    /\ dedup = {}
    /\ cacheLocks = {}
    /\ cacheFaulty = FALSE
    /\ pr = [p \in Procs |-> [IdleProc EXCEPT !.budget = IF p = "p3" THEN MaxCalls ELSE 1]]

NextBooks ==
    \/ \E p \in {"p1", "p2"} :
          \/ \E codes \in UploadLists : UploadCodesStart(p, "b1", codes)
          \/ UploadCodes(p)
          \/ \E count \in 1..2 : GenerateCodesStart(p, "b2", count)
          \/ GenerateCodes(p)
    \/ \E p \in {"p3"} :
          \/ AssignRandomStart(p, "b1", "u2")
          \/ AssignRandom(p)
          \/ AssignSpecificStart(p, "Y", "u1")
          \/ AssignSpecific(p)
          \/ LockStart(p, "X", "u2", 1)
          \/ Lock(p)
          \/ UnlockStart(p, "X", "u2")
          \/ Unlock(p)
          \/ RedeemStart(p, "X", "u2", NULL)
          \/ Redeem(p)

SpecBooks == InitBooks /\ [][NextBooks]_vars

\* C6: in every book the coupons that are ASSIGNED, LOCKED or REDEEMED and the coupons
\* that are AVAILABLE add up to totalCodes, whatever the interleaving of UploadCodes,
\* GenerateCodes, AssignRandom, AssignSpecific, Lock, Unlock and Redeem.
C6_TotalCodes ==
    \A b \in DOMAIN books :
        Cardinality({c \in CouponIds : coupons[c].book = b
                                        /\ coupons[c].status \in {ASSIGNED, LOCKED, REDEEMED}})
        + Cardinality({c \in CouponIds : coupons[c].book = b /\ coupons[c].status = AVAILABLE})
            = books[b].totalCodes

\* Two uploads into the same book have both inserted rows, a generation has filled
\* the other book, and the user's calls have changed a coupon's status meanwhile.
C6_Witness ==
    /\ \E p, q \in Procs :
          /\ p # q
          /\ pr[p].pc = "idle" /\ pr[p].op = "uploadCodes" /\ Len(pr[p].inserted) >= 1
          /\ pr[q].pc = "idle" /\ pr[q].op = "uploadCodes" /\ Len(pr[q].inserted) >= 1
    /\ books["b1"].totalCodes = 5
    /\ \E c \in CouponIds : coupons[c].status \in {LOCKED, REDEEMED}

\* ----------------------------------------- calls issued one after the other

\* No call is in flight.
AllIdle == \A p \in Procs : pr[p].pc = "idle"

InitSerial ==
    /\ books = [b \in {"b1"} |-> CouponBook(Some(1), Some(1), NULL, NULL, 1)]
    /\ coupons = <<Coupon("X", "b1")>>
    /\ assignments = <<>>
    /\ rowLocks = {}
    /\ dedup = {}
    /\ cacheLocks = {}
    /\ cacheFaulty = FALSE
    /\ now = 1
    /\ pr = [p \in Procs |-> [IdleProc EXCEPT !.budget = MaxCalls]]

\* A call starts only when every earlier call has returned.
NextSerial ==
    \E p \in Procs :
        \/ AllIdle /\ AssignSpecificStart(p, "X", UserOf(p))
        \/ AssignSpecific(p)
        \/ AllIdle /\ RedeemStart(p, "X", UserOf(p), NULL)
        \/ Redeem(p)

SpecSerial == InitSerial /\ [][NextSerial]_vars

\* C7: a Redeem by the same user, issued after the Redeem that used the assignment up
\* (limit 1) has returned, fails with Business (limit reached) and writes nothing.
C7_SecondRedeemIsBusiness ==
    \A p \in Procs :
        (pr[p].pc = "idle" /\ pr[p].op = "redeem" /\ pr[p].afterFull)
            => pr[p].result = Business /\ ~pr[p].wrote

\* C8: when a Redeem call that set the dedup flag returns, with success or with any
\* failure, the flag is cleared.
C8_DedupFlagCleared ==
    \A p \in Procs :
        (pr[p].pc = "idle" /\ pr[p].op = "redeem" /\ pr[p].setFlag)
            => ~hasDedup(COUPON_REDEEM, buildCouponUserKey(pr[p].code, pr[p].user))

\* ------------------------------------------------------------ database errors

\* The calls that the database refused with the given error code.
RefusedWith(err, ops) ==
    {p \in Procs : pr[p].pc = "idle" /\ pr[p].op \in ops /\ pr[p].err = err}

\* C11: an AssignSpecific, Lock or Redeem whose SELECT ... FOR UPDATE NOWAIT met a
\* row lock held by another transaction answers Conflict, and has written nothing.
C11_ContentionIsConflict ==
    \A p \in RefusedWith(LOCK_NOT_AVAILABLE, {"assignSpecific", "lock", "redeem"}) :
        pr[p].result = Conflict /\ ~pr[p].wrote

\* C12: an AssignRandom or AssignSpecific whose assignment insert broke the unique
\* constraint on (couponId, userId) answers Conflict, and its transaction is rolled
\* back: nothing it wrote is kept.
C12_UniqueViolationIsConflict ==
    \A p \in RefusedWith(UNIQUE_VIOLATION, {"assignRandom", "assignSpecific"}) :
        pr[p].result = Conflict /\ ~pr[p].wrote

\* C13 speaks of a Redeem whose version CAS updates no row.  The select of the same
\* transaction holds the coupon row FOR UPDATE until the commit, so the version it
\* read is still the stored one whenever the CAS runs: the case never arises.
RedeemVersionStable ==
    \A p \in Procs : pr[p].pc = "r_update" => VersionMatches(pr[p].cid, pr[p].version)

\* ------------------------------------------------------------ assignment checks

\* C14: an AssignSpecific that found its coupon in a status other than AVAILABLE when
\* it took the row lock answers Business and has written nothing (no assignment row,
\* no status change), also when the coupon was AVAILABLE at the first load.
C14_LockedStatusIsChecked ==
    \A p \in Procs :
        (/\ pr[p].pc = "idle" /\ pr[p].op = "assignSpecific"
         /\ ~IsNull(pr[p].locked) /\ Val(pr[p].locked) # AVAILABLE)
            => (pr[p].result = Business /\ ~pr[p].wrote)

\* ------------------------------------------------------------ scenario: the assignment limit
\* A book that allows one or two assignments per user, with three AVAILABLE coupons;
\* p2 and p3 are calls of the same user.
LimitCodes == {"X", "Y"}

InitLimit ==
    /\ \E limit \in {Some(1), Some(2)} :
          books = [b \in {"b1"} |-> CouponBook(Some(1), limit, NULL, NULL, MaxCoupons)]
    /\ coupons = [i \in 1..MaxCoupons |-> Coupon(CodeNames[i], "b1")]
    /\ assignments = <<>>
    /\ rowLocks = {}
    /\ dedup = {}
    /\ cacheLocks = {}
    /\ cacheFaulty = FALSE
    /\ now = 1
    /\ pr = [p \in Procs |-> [IdleProc EXCEPT !.budget = IF p = "p1" THEN 1 ELSE MaxCalls]]

NextLimit ==
    \/ \E p \in Procs :
          \/ AssignRandomStart(p, "b1", UserOf(p))
          \/ AssignRandom(p)
          \/ \E code \in LimitCodes : AssignSpecificStart(p, code, UserOf(p))
          \/ AssignSpecific(p)

SpecLimit == InitLimit /\ [][NextLimit]_vars

\* C15: a user never holds more assignment rows on a book, of whatever status, than
\* the book's maxAssignmentsPerUser.
C15_AssignmentLimit ==
    \A b \in DOMAIN books : \A user \in {UserOf(p) : p \in Procs} :
        ~IsNull(books[b].maxAssignmentsPerUser)
            => UserAssignmentCount(user, b) <= Val(books[b].maxAssignmentsPerUser)

\* ------------------------------------------------------------ scenario: the life of a coupon
\* One book with one AVAILABLE code X, with no redemption limit or a limit of 1 or 2.
\* Calls are issued one after the other by callers that note what the stores held
\* when they issued the call; between calls cache keys may expire.
InitLife ==
    /\ \E max \in {NULL, Some(1), Some(2)} :
          books = [b \in {"b1"} |-> CouponBook(max, Some(1), NULL, NULL, 1)]
    /\ coupons = <<Coupon("X", "b1")>>
    /\ assignments = <<>>
    /\ rowLocks = {}
    /\ dedup = {}
    /\ cacheLocks = {}
    /\ cacheFaulty = FALSE
    /\ now = 1
    /\ pr = [p \in Procs |->
               [IdleProc EXCEPT !.budget = IF p = "p1" THEN 1 ELSE MaxCalls, !.watch = TRUE]]

NextLife ==
    \/ \E p \in Procs :
          \/ AllIdle /\ AssignSpecificStart(p, "X", UserOf(p))
          \/ AssignSpecific(p)
          \/ AllIdle /\ LockStart(p, "X", UserOf(p), 1)
          \/ Lock(p)
          \/ AllIdle /\ UnlockStart(p, "X", UserOf(p))
          \/ Unlock(p)
          \/ AllIdle /\ RedeemStart(p, "X", UserOf(p), NULL)
          \/ Redeem(p)
    \/ AllIdle /\ TtlExpire

SpecLife == InitLife /\ [][NextLife]_vars

\* ------------------------------------------------------------ scenario: the end of a book
\* The book of code X is valid until 2 and can be deactivated; calls are issued one
\* after the other and time passes between them.
InitBookEnd ==
    /\ books = [b \in {"b1"} |-> CouponBook(Some(1), Some(1), NULL, NULL, 1)]
    /\ coupons = <<Coupon("X", "b1")>>
    /\ assignments = <<>>
    /\ rowLocks = {}
    /\ dedup = {}
    /\ cacheLocks = {}
    /\ cacheFaulty = FALSE
    /\ now = 1
    /\ pr = [p \in Procs |->
               [IdleProc EXCEPT !.budget = IF p = "p2" THEN MaxCalls ELSE 1, !.watch = TRUE]]

NextBookEnd ==
    \/ \E p \in Procs :
          \/ AllIdle /\ AssignRandomStart(p, "b1", UserOf(p))
          \/ AssignRandom(p)
          \/ AllIdle /\ AssignSpecificStart(p, "X", UserOf(p))
          \/ AssignSpecific(p)
          \/ AllIdle /\ LockStart(p, "X", UserOf(p), 1)
          \/ Lock(p)
          \/ AllIdle /\ UnlockStart(p, "X", UserOf(p))
          \/ Unlock(p)
          \/ AllIdle /\ RedeemStart(p, "X", UserOf(p), NULL)
          \/ Redeem(p)
          \/ AllIdle /\ DeactivateBookStart(p, "b1")
          \/ DeactivateBook(p)
    \/ AllIdle /\ Tick

SpecBookEnd == InitBookEnd /\ [][NextBookEnd]_vars

\* The calls of the given operations that have returned, with what they noted.
Noted(ops) == {p \in Procs : pr[p].pc = "idle" /\ pr[p].op \in ops /\ ~IsNull(pr[p].pre)}

\* C16: an AssignRandom, AssignSpecific or Redeem issued on a coupon of a book that
\* had been deactivated is rejected and writes nothing.
C16_DeactivatedBookRejects ==
    \A p \in Noted({"assignRandom", "assignSpecific", "redeem"}) :
        ~Val(pr[p].pre).active => (pr[p].result # OK /\ ~pr[p].wrote)

\* C17: an AssignRandom, AssignSpecific, Lock, Unlock or Redeem issued on a coupon of
\* a book whose validUntil had passed is rejected and writes nothing.
C17_ExpiredBookRejects ==
    \A p \in Noted({"assignRandom", "assignSpecific", "lock", "unlock", "redeem"}) :
        Val(pr[p].pre).expired => (pr[p].result # OK /\ ~pr[p].wrote)

\* ------------------------------------------------------------ the life of a coupon: properties

\* The coupon of a call and the caller's assignment of it.
CouponOf(p) == Min(CouponsByCode(pr[p].code))

AssignmentOf(p) == assignments[Min(AssignmentsOf(CouponOf(p), pr[p].user))]

\* No call has changed the coupon since the write of call p, which found it at the
\* version it noted.
Untouched(p) == coupons[CouponOf(p)].version = Val(pr[p].pre).version + 1

\* Call p was a successful Lock of an ASSIGNED coupon and call q the Unlock of the
\* same code by the same user that came next: the coupon version q noted is the one
\* p's write left.
LockThenUnlock(p, q) ==
    /\ p \in Noted({"lock"}) /\ q \in Noted({"unlock"})
    /\ pr[p].result = OK
    /\ Val(pr[p].pre).status = ASSIGNED
    /\ pr[q].code = pr[p].code /\ pr[q].user = pr[p].user
    /\ Val(pr[q].pre).version = Val(pr[p].pre).version + 1

\* C18: Lock followed by Unlock by the owner of an ASSIGNED coupon: the Unlock
\* succeeds and leaves the coupon ASSIGNED, the assignment's lockedAt and
\* lockExpiresAt null and its redemptionCount as it was before the Lock.
C18_LockUnlockRoundTrip ==
    \A p, q \in Procs :
        LockThenUnlock(p, q) =>
            /\ pr[q].result = OK
            /\ Untouched(q) =>
                  /\ coupons[CouponOf(q)].status = ASSIGNED
                  /\ IsNull(AssignmentOf(q).lockedAt)
                  /\ IsNull(AssignmentOf(q).lockExpiresAt)
                  /\ AssignmentOf(q).redemptionCount = Val(pr[p].pre).count

\* A round trip on an assignment that has been redeemed once.
C18_Witness ==
    \E p, q \in Procs :
        /\ LockThenUnlock(p, q) /\ Untouched(q)
        /\ Val(pr[p].pre).count = 1
        /\ coupons[CouponOf(q)].status = ASSIGNED

\* The redemption limit of the book of the call's coupon.
LimitOf(p) == books[coupons[CouponOf(p)].book].maxRedemptionsPerUser

\* Call p was a Redeem by the owner of the coupon, with no dedup flag left by an
\* earlier attempt.
OwnerRedeem(p) ==
    /\ p \in Noted({"redeem"})
    /\ Val(pr[p].pre).owned /\ ~Val(pr[p].pre).flag

C20_NotOwnerIsNotFound ==
    \A p \in Noted({"lock", "unlock", "redeem"}) :
        ~Val(pr[p].pre).owned => (pr[p].result = NotFound /\ ~pr[p].wrote)

\* ------------------------------------------------------------ scenario: bulk inserts
\* Book b1 takes uploads and holds X and Y; book b2 generates its codes from the
\* pattern G, at most two of them.  Every handler sends one bulk request.
InitBulk ==
    /\ now = 1
    /\ books = [b \in {"b1", "b2"} |->
                   IF b = "b1" THEN CouponBook(Some(1), Some(2), NULL, NULL, 2)
                   ELSE CouponBook(Some(1), Some(2), Some("G"), Some(2), 0)]
    /\ coupons = <<Coupon("X", "b1"), Coupon("Y", "b1")>>
    /\ assignments = <<>>
    /\ rowLocks = {}
    /\ dedup = {}
    /\ cacheLocks = {}
    /\ cacheFaulty = FALSE
    /\ pr = [p \in Procs |-> [IdleProc EXCEPT !.budget = 1]]

NextBulk ==
    \E p \in Procs :
        \/ \E codes \in UploadLists : UploadCodesStart(p, "b1", codes)
        \/ UploadCodes(p)
        \/ \E count \in 1..2 : GenerateCodesStart(p, "b2", count)
        \/ GenerateCodes(p)

SpecBulk == InitBulk /\ [][NextBulk]_vars

\* The bulk calls that have been answered.
Answered(ops) == {p \in Procs : pr[p].pc = "idle" /\ pr[p].op \in ops}

\* C21: an UploadCodes that repeats an answered upload, the same codes for the same
\* book, inserts no coupon row, reports every code as a duplicate and leaves the
\* book's totalCodes as it was.
C21_RepeatedUploadInsertsNothing ==
    [][\A p \in Procs :
          (pr[p].op = "uploadCodes" /\ pr[p].repeat /\ pr[p].pc = "b_commit"
              /\ pr'[p].pc = "idle" /\ pr'[p].result = OK)
            => /\ coupons' = coupons
               /\ books' = books
               /\ Val(pr'[p].resp).uploadedCount = 0
               /\ Val(pr'[p].resp).duplicateCount = Len(pr[p].codes)]_vars

\* A repeated upload of a list of two batches has been answered with success.
C21_Witness ==
    \E p \in Answered({"uploadCodes"}) :
        /\ pr[p].repeat /\ pr[p].result = OK
        /\ Len(pr[p].codes) > BatchSize

\* The codes of a sequence.
Codes(codes) == {codes[i] : i \in DOMAIN codes}

\* C22: no two coupon rows, of the same book or of different books, have the same
\* code, whatever the interleaving of UploadCodes and GenerateCodes; every code of an
\* answered bulk call was either inserted or counted as a duplicate.
C22_GloballyUniqueCodes ==
    /\ \A i, j \in CouponIds : coupons[i].code = coupons[j].code => i = j
    /\ \A p \in Answered({"uploadCodes", "generateCodes"}) :
          pr[p].result = OK =>
              /\ Codes(pr[p].codes) \subseteq {coupons[i].code : i \in CouponIds}
              /\ Val(pr[p].resp).uploadedCount + Val(pr[p].resp).duplicateCount
                    = Len(pr[p].codes)

\* An upload into b1 and a generation for b2 both carried the code G0; one of them
\* inserted it and the other counted it as a duplicate.
C22_Witness ==
    \E p \in Answered({"uploadCodes"}), q \in Answered({"generateCodes"}) :
        /\ pr[p].result = OK /\ pr[q].result = OK
        /\ "G0" \in Codes(pr[p].codes) /\ "G0" \in Codes(pr[q].codes)
        /\ Val(pr[q].resp).duplicateCount >= 1

\* C23: a bulk insert commits its batches and the increment of totalCodes together:
\* in every step the rows of a book and its totalCodes change by the same number,
\* and the step in which a bulk call fails changes no coupon and no book.
C23_BulkInsertIsAtomic ==
    [][/\ \A b \in DOMAIN books :
             CouponCount(b)' - CouponCount(b) = books'[b].totalCodes - books[b].totalCodes
       /\ \A p \in Procs :
             (pr[p].op \in {"uploadCodes", "generateCodes"}
                 /\ pr[p].pc # "idle" /\ pr'[p].pc = "idle" /\ pr'[p].result # OK)
               => coupons' = coupons /\ books' = books]_vars

\* A bulk call of more than one batch has failed after its first batch, and another
\* bulk call has inserted rows.
C23_Witness ==
    \E p, q \in Answered({"uploadCodes", "generateCodes"}) :
        /\ pr[p].err = DEADLOCK_DETECTED
        /\ pr[p].batch >= BatchSize /\ Len(pr[p].codes) > BatchSize
        /\ pr[q].result = OK /\ Len(pr[q].inserted) >= 1

\* C24: a book with maxCodes set never holds more coupons than maxCodes.
C24_MaxCodes ==
    \A b \in DOMAIN books :
        ~IsNull(books[b].maxCodes) => CouponCount(b) <= Val(books[b].maxCodes)

\* C27: a GenerateCodes(book, n) that found room for n codes under maxCodes (n is
\* within 0.80 of the 3 codes of the pattern) and was answered with success has
\* uploaded n codes, each an expansion of the pattern, as n new coupon rows.
C27_GeneratesRequestedCount ==
    \A p \in Answered({"generateCodes"}) :
        (pr[p].result = OK /\ Len(pr[p].codes) = pr[p].count)
            => /\ Val(pr[p].resp).uploadedCount = pr[p].count
               /\ Codes(pr[p].inserted) \subseteq PatternCodes(Val(books[pr[p].book].codePattern))
               /\ Len(pr[p].inserted) = pr[p].count

\* ---------------------------------------------------------------------------
\* CodeGenerator.generateCodes, draw by draw
\* ---------------------------------------------------------------------------

\* maxAttempts = count * 10
MaxAttemptsFactor == 10

\* A loop that only stops on a full set.
DrawUntilFull(size, attempts, count) == size < count

\* while (codes.size < count && attempts < maxAttempts)
KeepDrawing(size, attempts, count) ==
    size < count /\ attempts < count * MaxAttemptsFactor

\* codes.add(code) on a Set, which keeps the insertion order and each code once.
SetAdd(codes, code) ==
    IF \E i \in DOMAIN codes : codes[i] = code THEN codes ELSE Append(codes, code)

\* const codes = new Set(); let attempts = 0
GeneratorStart(p, pattern, count) ==
    /\ CanStart(p)
    /\ Set(p, [Begin(p, "generator", pattern, "", "") EXCEPT !.pc = "gen", !.count = count])
    /\ UNCHANGED <<dbVars, cacheVars, now>>

\* One turn of the loop: generateSingleCode draws any expansion of the pattern.
GeneratorDraw(p) ==
    /\ pr[p].pc = "gen"
    /\ KeepDrawing(Len(pr[p].codes), pr[p].attempts, pr[p].count)
    /\ \E code \in PatternCodes(pr[p].code) :
           Set(p, [pr[p] EXCEPT !.codes = SetAdd(pr[p].codes, code),
                                !.attempts = pr[p].attempts + 1])
    /\ UNCHANGED <<dbVars, cacheVars, now>>

\* After the loop: BadRequestException (VALIDATION_ERROR) on a short set, else
\* Array.from(codes).
GeneratorEnd(p) ==
    /\ pr[p].pc = "gen"
    /\ ~KeepDrawing(Len(pr[p].codes), pr[p].attempts, pr[p].count)
    /\ Set(p, IF Len(pr[p].codes) < pr[p].count THEN Return(p, Validation)
              ELSE [Return(p, OK) EXCEPT !.resp = Some(pr[p].codes)])
    /\ UNCHANGED <<dbVars, cacheVars, now>>

\* Calls of the generator alone, by one caller after another.
InitDraw ==
    /\ now = 1
    /\ books = [b \in {"b2"} |-> CouponBook(Some(1), Some(2), Some("G"), NULL, 0)]
    /\ coupons = <<>>
    /\ assignments = <<>>
    /\ rowLocks = {}
    /\ dedup = {}
    /\ cacheLocks = {}
    /\ cacheFaulty = FALSE
    /\ pr = [p \in Procs |-> [IdleProc EXCEPT !.budget = IF p = "p1" THEN MaxCalls ELSE 0]]

NextDraw ==
    \E p \in Procs :
        \/ \E count \in 1..MaxCount : GeneratorStart(p, "G", count)
        \/ GeneratorDraw(p)
        \/ GeneratorEnd(p)

SpecDraw == InitDraw /\ [][NextDraw]_vars

\* The loop is synchronous code of one call: once entered it keeps running.
FairDraw == SpecDraw /\ \A p \in Procs : WF_vars(GeneratorDraw(p) \/ GeneratorEnd(p))

\* What the loop returns is what generateCodes says a call may return.
GeneratorRefinesGenerateCodes ==
    \A p \in Answered({"generator"}) :
        LET outcome == IF pr[p].result = OK THEN Val(pr[p].resp) ELSE <<"throws">>
        IN  outcome \in generateCodes(PatternCodes(pr[p].code), pr[p].count)

\* C28: CodeGenerator.generateCodes makes at most 10 * count draws; it then either
\* returns exactly count different codes of the pattern or fails with the
\* pattern-exhausted validation error; and a call that entered the loop ends.
C28_GeneratorTerminates ==
    /\ [](\A p \in Procs :
            pr[p].op = "generator" =>
                /\ pr[p].attempts <= MaxAttemptsFactor * pr[p].count
                /\ pr[p].pc = "idle" =>
                      \/ /\ pr[p].result = OK
                         /\ Len(Val(pr[p].resp)) = pr[p].count
                         /\ Cardinality(Codes(Val(pr[p].resp))) = pr[p].count
                         /\ Codes(Val(pr[p].resp)) \subseteq PatternCodes(pr[p].code)
                      \/ /\ pr[p].result = Validation
                         /\ Len(pr[p].codes) < pr[p].count)
    /\ \A p \in Procs : (pr[p].pc = "gen") ~> (pr[p].pc = "idle")

\* A call that got its last code on the very last draw allowed.
C28_Witness ==
    \E p \in Answered({"generator"}) :
        /\ pr[p].result = OK
        /\ pr[p].count = 2
        /\ pr[p].attempts = MaxAttemptsFactor * pr[p].count

\* C29: a coupon that was never written holds version 1; every step that changes a
\* coupon row raises its version by exactly 1 and no step lowers it; the version of
\* a coupon goes up in a step exactly when an assign, lock, unlock or redeem commits
\* its write of that coupon in that step, so a call that fails changes no version.
C29_VersionCountsMutations ==
    [][\A c \in DOMAIN coupons :
          LET committed == {p \in Procs : /\ ~pr[p].wrote /\ pr'[p].wrote /\ pr'[p].cid = c
                                          /\ pr[p].op \in {"assignRandom", "assignSpecific",
                                                           "lock", "unlock", "redeem"}}
          IN  /\ c \in DOMAIN coupons'
              /\ coupons[c].status = AVAILABLE => coupons[c].version = 1
              /\ coupons'[c].version \in {coupons[c].version, coupons[c].version + 1}
              /\ coupons'[c] # coupons[c] => coupons'[c].version = coupons[c].version + 1
              /\ committed # {} <=> coupons'[c].version = coupons[c].version + 1
              /\ \A p \in Procs :
                    (pr'[p].pc = "idle" /\ pr[p].pc # "idle" /\ ~pr'[p].wrote)
                        => coupons'[c] = coupons[c]]_vars

\* The coupon went through assign, lock and one more write, and a call was refused.
C29_Witness ==
    /\ \E c \in DOMAIN coupons : coupons[c].version = 4
    /\ \E p \in Procs : pr[p].pc = "idle" /\ pr[p].result \notin {OK, "none"} /\ ~pr[p].wrote
    /\ \E p \in Procs : pr[p].pc = "idle" /\ pr[p].op = "redeem" /\ pr[p].wrote

\* C30: every assignment row has lockedAt and lockExpiresAt both set or both null.
C30_LockFieldsTogether ==
    \A j \in DOMAIN assignments :
        IsNull(assignments[j].lockedAt) <=> IsNull(assignments[j].lockExpiresAt)

\* A row whose lock is set while an earlier unlock that cleared a lock has committed.
C30_Witness ==
    /\ \E j \in DOMAIN assignments :
          /\ ~IsNull(assignments[j].lockedAt)
          /\ ~IsNull(assignments[j].lockExpiresAt)
          /\ coupons[assignments[j].couponId].status = LOCKED
    /\ \E p \in Procs : pr[p].pc = "idle" /\ pr[p].op = "unlock" /\ pr[p].wrote

\* ---------------------------------------------------------------------------
\* createCouponBook
\* ---------------------------------------------------------------------------

\* MAX_PATTERN_USAGE_RATIO = 0.8, in tenths
MAX_PATTERN_USAGE_TENTHS == 8

\* CodeGenerator.validatePattern: of the patterns of the model, "G" has a placeholder
\* and only allowed characters, "!" has neither.
validatePattern(pattern) == pattern = "G"

\* CodeGenerator.estimateMaxUniqueCodes
estimateMaxUniqueCodes(pattern) == Cardinality(PatternCodes(pattern))

\* validateCodePattern(codePattern, maxCodes)
validateCodePattern(codePattern, totalCodes) ==
    IF IsNull(totalCodes) \/ Val(totalCodes) = 0 THEN Validation
    ELSE IF ~validatePattern(codePattern) THEN Validation
    ELSE IF Val(totalCodes) * 10 > estimateMaxUniqueCodes(codePattern) * MAX_PATTERN_USAGE_TENTHS
    THEN Validation
    ELSE OK

\* validateUniqueNameAndDescription's findOne: an absent or empty description looks
\* for the books of that name with a null description.
BooksNamed(name, description) ==
    {b \in DOMAIN books :
        /\ books[b].name = name
        /\ books[b].description =
              (IF IsNull(description) \/ description = Some("") THEN NULL ELSE description)}

\* The uuid of a book created by the n-th call of a process.
NewBookId(p) == p \o "-" \o <<"1", "2", "3", "4", "5">>[pr[p].calls]

\* couponBookRepo.create({ ...rest, validFrom, validUntil, codePattern, maxCodes })
NewBook(dto) ==
    [name |-> dto.name, description |-> dto.description, isActive |-> TRUE,
     validFrom |-> dto.validFrom, validUntil |-> dto.validUntil,
     maxRedemptionsPerUser |-> NULL, maxAssignmentsPerUser |-> NULL,
     codePattern |-> dto.codePattern, maxCodes |-> dto.maxCodes, totalCodes |-> 0]

\* createCouponBook is called.
CreateBookStart(p, dto) ==
    /\ CanStart(p)
    /\ Set(p, [Begin(p, "createBook", "", "", "") EXCEPT !.pc = "c_check", !.dto = Some(dto)])
    /\ UNCHANGED <<dbVars, cacheVars, now>>

\* validateUniqueNameAndDescription, then the checks of the dates and of the pattern.
CreateBookCheck(p) ==
    /\ pr[p].pc = "c_check"
    /\ LET dto == Val(pr[p].dto)
       IN  Set(p, IF BooksNamed(dto.name, dto.description) # {} THEN Return(p, Conflict)
                  ELSE IF dto.validFrom >= dto.validUntil THEN Return(p, Validation)
                  ELSE IF ~IsNull(dto.codePattern)
                          /\ validateCodePattern(Val(dto.codePattern), dto.maxCodes) # OK
                  THEN Return(p, Validation)
                  ELSE [pr[p] EXCEPT !.pc = "c_save"])
    /\ UNCHANGED <<dbVars, cacheVars, now>>

\* couponBookRepo.save(book): the insert, under a new id.
CreateBookSave(p) ==
    /\ pr[p].pc = "c_save"
    /\ LET id == NewBookId(p)
       IN  /\ books' = [b \in DOMAIN books \cup {id} |->
                           IF b = id THEN NewBook(Val(pr[p].dto)) ELSE books[b]]
           /\ Set(p, [Return(p, OK) EXCEPT !.wrote = TRUE, !.book = id, !.resp = Some(id)])
    /\ UNCHANGED <<coupons, assignments, rowLocks, cacheVars, now>>

CreateBook(p) ==
    \/ CreateBookCheck(p)
    \/ CreateBookSave(p)

\* The bodies of the CreateBook requests of the scenario.
CreateDtos ==
    {dto \in [name : {"N", "M"}, description : {NULL, Some(""), Some("D")},
              validFrom : {0, 2}, validUntil : {2},
              codePattern : {NULL, Some("G"), Some("!")},
              maxCodes : {NULL, Some(2), Some(3)}] :
        /\ IsNull(dto.codePattern) => IsNull(dto.maxCodes)
        /\ dto.codePattern = Some("!") => dto.maxCodes = Some(2)}

\* Two clients that create books and deactivate the one book there is, concurrently.
InitCatalog ==
    /\ now = 1
    /\ books = [b \in {"b1"} |->
                   NewBook([name |-> "N", description |-> Some("D"), validFrom |-> 0,
                            validUntil |-> 2, codePattern |-> NULL, maxCodes |-> NULL])]
    /\ coupons = <<>>
    /\ assignments = <<>>
    /\ rowLocks = {}
    /\ dedup = {}
    /\ cacheLocks = {}
    /\ cacheFaulty = FALSE
    /\ pr = [p \in Procs |-> [IdleProc EXCEPT !.budget = IF p = "p3" THEN 0 ELSE 1]]

NextCatalog ==
    \E p \in Procs :
        \/ \E dto \in CreateDtos : CreateBookStart(p, dto)
        \/ CreateBook(p)
        \/ DeactivateBookStart(p, "b1")
        \/ DeactivateBook(p)

SpecCatalog == InitCatalog /\ [][NextCatalog]_vars

\* C25: no two coupon books have the same name and the same description, an absent
\* description being equal only to an absent one.
C25_UniqueNameAndDescription ==
    \A b1, b2 \in DOMAIN books :
        (books[b1].name = books[b2].name /\ books[b1].description = books[b2].description)
            => b1 = b2

\* C26: for any book at most one DeactivateBook call has succeeded.
C26_OneDeactivationSucceeds ==
    \A b \in DOMAIN books :
        Cardinality({p \in Answered({"deactivateBook"}) :
                        pr[p].book = b /\ pr[p].result = OK}) <= 1

\* The part of C26 on the flag itself: no step sets a book's isActive back to TRUE,
\* and a DeactivateBook that fails changes no book.
ActiveOnlyFalls ==
    [][/\ \A b \in DOMAIN books : b \in DOMAIN books' /\ (books'[b].isActive => books[b].isActive)
       /\ \A p \in Procs :
             (pr[p].op = "deactivateBook" /\ pr[p].pc # "idle" /\ pr'[p].pc = "idle"
                 /\ pr'[p].result # OK) => books' = books]_vars

\* ------------------------------------- Lock and Redeem over a cache that fails

\* Coupon X is assigned to u2, locked or not, in a book with one or two redemptions per
\* user; two handlers call once each for u2 while the cache fails at will.
InitOutage ==
    /\ \E max \in {Some(1), Some(2)} :
          books = [b \in {"b1"} |-> CouponBook(max, NULL, NULL, NULL, 1)]
    /\ now = 1
    /\ \E locked \in BOOLEAN :
          /\ coupons = <<[Coupon("X", "b1") EXCEPT
                            !.status = IF locked THEN LOCKED ELSE ASSIGNED,
                            !.version = IF locked THEN 3 ELSE 2]>>
          /\ assignments = <<[CouponAssignment(1, "u2") EXCEPT
                                !.lockedAt = IF locked THEN Some(now) ELSE NULL,
                                !.lockExpiresAt = IF locked THEN Some(now + 1) ELSE NULL]>>
    /\ rowLocks = {}
    /\ dedup = {}
    /\ cacheLocks = {}
    /\ cacheFaulty = TRUE
    /\ pr = [p \in Procs |->
               [IdleProc EXCEPT !.budget = IF p = "p3" THEN 0 ELSE 1, !.watch = TRUE]]

NextOutage ==
    \/ \E p \in Procs :
          \/ LockStart(p, "X", "u2", 1)
          \/ Lock(p)
          \/ RedeemStart(p, "X", "u2", NULL)
          \/ Redeem(p)
    \/ CacheLoss

SpecOutage == InitOutage /\ [][NextOutage]_vars

\* The cache lock the call of p holds.
OwnLocks(p) == {l \in cacheLocks : l.by = <<p, pr[p].calls>>}

EligibleAtStart(p) ==
    LET pre == Val(pr[p].pre)
        max == books["b1"].maxRedemptionsPerUser
    IN  /\ pre.owned
        /\ pre.status \in {ASSIGNED, LOCKED}
        /\ pre.active /\ ~pre.expired
        /\ IsNull(max) \/ pre.count < Val(max)

\* The cache answered no command of the call of p: its first command, the only one it
\* came to issue, failed.
CacheDownThroughout(p) == pr[p].err = CACHE_ERROR /\ ~pr[p].setFlag /\ ~pr[p].acquired

\* C32: a Redeem of a coupon its caller may redeem, made while the cache answers no
\* command, succeeds.
C32_RedeemSurvivesCacheLoss ==
    \A p \in Answered({"redeem"}) :
        (EligibleAtStart(p) /\ CacheDownThroughout(p)) => pr[p].result = OK

RECURSIVE SumCounts(_)
\* The sum of redemptionCount over a set of assignment rows.
SumCounts(rows) ==
    IF rows = {} THEN 0
    ELSE LET j == Min(rows) IN assignments[j].redemptionCount + SumCounts(rows \ {j})

\* c.assignments.sum(redemptionCount)
RedemptionCount(c) == SumCounts({j \in AssignmentIds : assignments[j].couponId = c})

\* The Redeem calls on coupon c that have returned success.
RedeemedOK(c) ==
    {p \in Answered({"redeem"}) : pr[p].result = OK /\ pr[p].cid = c}

\* C33: between operations the Redeem calls on a coupon that returned success are as
\* many as the redemption counts of its assignment rows add up to, and at most one
\* when the book allows one redemption per user; while calls are in flight the sum
\* counts exactly the redemptions written.
C33_SuccessesEqualCounts ==
    \A c \in CouponIds :
        /\ RedemptionCount(c)
              = Cardinality({p \in Procs : pr[p].op = "redeem" /\ pr[p].wrote /\ pr[p].cid = c})
        /\ AllIdle =>
              /\ Cardinality(RedeemedOK(c)) = RedemptionCount(c)
              /\ books[coupons[c].book].maxRedemptionsPerUser = Some(1)
                    => Cardinality(RedeemedOK(c)) <= 1

\* Both calls were Redeems that succeeded, one of them although its release failed
\* and left its key in the cache.
C33_Witness ==
    /\ AllIdle
    /\ Cardinality(RedeemedOK(1)) = 2
    /\ RedemptionCount(1) = 2
    /\ cacheLocks # {}

\* ---------------------------------------------------------------------------
\* Code patterns, character by character
\* ---------------------------------------------------------------------------
\* Here a pattern or a code is the sequence of its characters.  The characters of the
\* model: some uppercase letters, a lowercase letter, two digits, the hyphen, the
\* braces and the star.

UpperLetters == {"A", "B", "M", "O", "P", "R", "X"}

LowerLetters == {"p"}

Digits == {"0", "9"}

\* CHARSET_LETTERS, CHARSET_DIGITS, CHARSET_ALPHANUMERIC: what randomString draws from.
Charset(mark) ==
    IF mark \in {"X", "x"} THEN {"A", "B"}
    ELSE IF mark = "9" THEN {"0", "9"}
    ELSE {"A", "B", "0", "9"}

\* @MinLength(6, { each: true }) and @MaxLength(32, { each: true }) of the codes
MinCodeLength == 6

MaxCodeLength == 32

\* A code as the specification wants it: uppercase letters, digits, '-' and '_' only,
\* 6 to 32 characters.
WellFormedCode(code) ==
    /\ Len(code) >= MinCodeLength
    /\ Len(code) <= MaxCodeLength
    /\ \A i \in DOMAIN code : code[i] \in UpperLetters \cup Digits \cup {"-", "_"}

\* CreateCouponBookDto.codePattern: @Matches(/^[A-Z0-9{}\-_]+$/)
MatchesPatternDto(pattern) ==
    /\ pattern # <<>>
    /\ \A i \in DOMAIN pattern : pattern[i] \in UpperLetters \cup Digits \cup {"{", "}", "-", "_"}

\* The length of the run of the character at position i.
RECURSIVE RunLength(_, _, _)
RunLength(pattern, i, mark) ==
    IF i <= Len(pattern) /\ pattern[i] = mark THEN 1 + RunLength(pattern, i + 1, mark) ELSE 0

\* /\{X+\}/gi, /\{9+\}/g, /\{\*+\}/g at the head of a text: the number of marks of the
\* placeholder that starts there, 0 when none does.
PlaceholderAt(text) ==
    IF Len(text) >= 3 /\ text[1] = "{" /\ text[2] \in {"X", "x", "9", "*"}
    THEN LET k == RunLength(text, 2, text[2])
         IN  IF k + 2 <= Len(text) /\ text[k + 2] = "}" THEN k ELSE 0
    ELSE 0

\* randomString(length, charset): every string of that length over the charset.
RandomStrings(length, charset) == [1..length -> charset]

\* CodeGenerator.generateSingleCode: the codes a draw may give.  Every placeholder is
\* replaced by random characters; all other characters stay as they are.
RECURSIVE generateSingleCode(_)
generateSingleCode(pattern) ==
    IF pattern = <<>> THEN {<<>>}
    ELSE LET k == PlaceholderAt(pattern)
         IN  IF k > 0
             THEN {r \o rest : r \in RandomStrings(k, Charset(pattern[2])),
                               rest \in generateSingleCode(SubSeq(pattern, k + 3, Len(pattern)))}
             ELSE {<<pattern[1]>> \o rest : rest \in generateSingleCode(Tail(pattern))}

\* /\{[X9*]+\}/i.test(pattern): a brace, marks of any of the kinds, a brace.
RECURSIVE MarksThenBrace(_, _)
MarksThenBrace(pattern, i) ==
    /\ i <= Len(pattern)
    /\ \/ pattern[i] = "}"
       \/ pattern[i] \in {"X", "x", "9", "*"} /\ MarksThenBrace(pattern, i + 1)

hasPlaceholder(pattern) ==
    \E i \in DOMAIN pattern :
        /\ pattern[i] = "{"
        /\ i + 1 <= Len(pattern)
        /\ pattern[i + 1] \in {"X", "x", "9", "*"}
        /\ MarksThenBrace(pattern, i + 1)

\* /^[A-Z0-9{}\-_]+$/i.test(pattern)
validChars(pattern) ==
    /\ pattern # <<>>
    /\ \A i \in DOMAIN pattern :
          pattern[i] \in UpperLetters \cup LowerLetters \cup Digits \cup {"{", "}", "-", "_"}

\* CodeGenerator.validatePattern on the characters of a pattern.
ValidPatternText(pattern) == hasPlaceholder(pattern) /\ validChars(pattern)

\* The longest ending of the patterns of the scenario.
MaxTail == 4

\* The patterns sent: nothing or PROMO, followed by up to MaxTail characters.
PatternTexts ==
    {head \o tail : head \in {<<>>, <<"P", "R", "O", "M", "O">>},
                    tail \in UNION {[1..n -> {"p", "X", "9", "*", "{", "}", "-"}] : n \in 1..MaxTail}}

\* CreateBook with a pattern is called.
PatternStart(p, pattern) ==
    /\ CanStart(p)
    /\ Set(p, [Begin(p, "pattern", "", "", "") EXCEPT !.pc = "pat_check", !.dto = Some(pattern)])
    /\ UNCHANGED <<dbVars, cacheVars, now>>

\* The validation of the request body, then validateCodePattern's validatePattern.
PatternCheck(p) ==
    /\ pr[p].pc = "pat_check"
    /\ Set(p, IF ~MatchesPatternDto(Val(pr[p].dto)) \/ ~ValidPatternText(Val(pr[p].dto))
              THEN Return(p, Validation)
              ELSE [pr[p] EXCEPT !.pc = "pat_draw"])
    /\ UNCHANGED <<dbVars, cacheVars, now>>

\* GenerateCodes on the book: a code is drawn from the pattern and inserted as it is.
PatternDraw(p) ==
    /\ pr[p].pc = "pat_draw"
    /\ \E code \in generateSingleCode(Val(pr[p].dto)) :
          Set(p, [Return(p, OK) EXCEPT !.codes = <<code>>, !.inserted = <<code>>])
    /\ UNCHANGED <<dbVars, cacheVars, now>>

InitPattern ==
    /\ now = 1
    /\ books = [b \in {"b2"} |-> CouponBook(Some(1), Some(2), Some("G"), NULL, 0)]
    /\ coupons = <<>>
    /\ assignments = <<>>
    /\ rowLocks = {}
    /\ dedup = {}
    /\ cacheLocks = {}
    /\ cacheFaulty = FALSE
    /\ pr = [p \in Procs |-> [IdleProc EXCEPT !.budget = IF p = "p1" THEN 1 ELSE 0]]

NextPattern ==
    \E p \in Procs :
        \/ CanStart(p) /\ \E pattern \in PatternTexts : PatternStart(p, pattern)
        \/ PatternCheck(p)
        \/ PatternDraw(p)

SpecPattern == InitPattern /\ [][NextPattern]_vars

\* C34: every code generated from a pattern that CreateBook accepted is uppercase,
\* 6 to 32 characters long and made of A-Z, 0-9, '-' and '_' only.
C34_WellFormedCodes ==
    \A p \in Answered({"pattern"}) :
        pr[p].result = OK => \A i \in DOMAIN pr[p].inserted : WellFormedCode(pr[p].inserted[i])

\* Reachable: an accepted pattern that is long enough and whose braces all belong to
\* placeholders has given a well-formed code.
WellFormedCodeDrawn ==
    \E p \in Answered({"pattern"}) :
        pr[p].result = OK /\ WellFormedCode(pr[p].inserted[1]) /\ Len(pr[p].inserted[1]) = 7

\* Reachable: an accepted pattern with a brace outside its placeholders has given a
\* code of 6 characters or more that keeps the brace.
BraceStored ==
    \E p \in Answered({"pattern"}) :
        /\ pr[p].result = OK
        /\ Len(pr[p].inserted[1]) >= MinCodeLength
        /\ \E i \in DOMAIN pr[p].inserted[1] : pr[p].inserted[1][i] \in {"{", "}"}

\* ------------------------------------------ GenerateCodes beyond the pattern

\* Book b2 generates from pattern G, which has 3 codes, and may hold 2 (CreateBook
\* allowed no more: 2 <= 0.8 * 3 < 3); two handlers ask once each for 1 to MaxCount.
InitQuota ==
    /\ now = 1
    /\ books = [b \in {"b2"} |-> CouponBook(Some(1), Some(2), Some("G"), Some(2), 0)]
    /\ coupons = <<>>
    /\ assignments = <<>>
    /\ rowLocks = {}
    /\ dedup = {}
    /\ cacheLocks = {}
    /\ cacheFaulty = FALSE
    /\ pr = [p \in Procs |-> [IdleProc EXCEPT !.budget = IF p = "p3" THEN 0 ELSE 1]]

NextQuota ==
    \E p \in Procs :
        \/ \E count \in 1..MaxCount : GenerateCodesStart(p, "b2", count)
        \/ GenerateCodes(p)
        \/ BatchInsert(p)
        \/ BatchTotal(p)
        \/ BatchCommit(p)
        \/ BatchFail(p)

SpecQuota == InitQuota /\ [][NextQuota]_vars

\* count > 0.80 * maxUniqueCodes(pattern)
AbovePatternCapacity(count, pattern) ==
    count * 10 > estimateMaxUniqueCodes(pattern) * MAX_PATTERN_USAGE_TENTHS

\* C35: a GenerateCodes whose count is above 0.80 of the pattern's number of codes
\* fails with Validation and inserts no coupon (calls whose transaction the database
\* aborted aside).
C35_CountAboveCapacityRejected ==
    \A p \in Answered({"generateCodes"}) :
        (AbovePatternCapacity(pr[p].count, Val(books[pr[p].book].codePattern)) /\ pr[p].err = "")
            => pr[p].result = Validation /\ pr[p].inserted = <<>>

\* The part of C35 that holds: the generator is never asked for more than 0.80 of the
\* pattern's codes, because maxCodes, checked at CreateBook, caps the number.
GeneratorWithinCapacity ==
    \A p \in Procs :
        (pr[p].op = "generateCodes" /\ pr[p].codes # <<>>)
            => ~AbovePatternCapacity(Len(pr[p].codes), Val(books[pr[p].book].codePattern))

\* C36: of the Redeem calls for the same code and user that are in flight together at
\* most one has passed the dedup layer (has set the flag).
C36_OnePassesDedup ==
    \A p, q \in Procs :
        (/\ p # q
         /\ pr[p].op = "redeem" /\ pr[p].pc # "idle" /\ pr[p].setFlag
         /\ pr[q].op = "redeem" /\ pr[q].pc # "idle" /\ pr[q].setFlag)
            => buildCouponUserKey(pr[p].code, pr[p].user) # buildCouponUserKey(pr[q].code, pr[q].user)

\* ------------------------------------------------- Redeem with metadata

\* The metadata objects sent, as sets of key and value pairs.
MetadataSent == {NULL, Some({<<"k1", "v1">>}), Some({<<"k2", "v2">>})}

\* Coupon X is assigned to u2 in a book that allows two redemptions per user; Redeem
\* calls come one after the other, and the dedup flag may expire in between.
InitMeta ==
    /\ books = [b \in {"b1"} |-> CouponBook(Some(2), NULL, NULL, NULL, 1)]
    /\ now = 1
    /\ coupons = <<[Coupon("X", "b1") EXCEPT !.status = ASSIGNED, !.version = 2]>>
    /\ assignments = <<CouponAssignment(1, "u2")>>
    /\ rowLocks = {}
    /\ dedup = {}
    /\ cacheLocks = {}
    /\ cacheFaulty = FALSE
    /\ pr = [p \in Procs |-> [IdleProc EXCEPT !.budget = IF p = "p3" THEN 0 ELSE MaxCalls]]

NextMeta ==
    \/ \E p \in Procs :
          \/ AllIdle /\ \E meta \in MetadataSent : RedeemStart(p, "X", "u2", meta)
          \/ Redeem(p)
    \/ AllIdle /\ TtlExpire

SpecMeta == InitMeta /\ [][NextMeta]_vars

\* The key and value pairs of a metadata object; none when there is no object.
Pairs(metadata) == IF IsNull(metadata) THEN {} ELSE Val(metadata)

\* The keys of a metadata object.
Keys(metadata) == {kv[1] : kv \in Pairs(metadata)}

\* C37: the write of a Redeem keeps, in the assignment row's metadata, every stored
\* key the call did not supply with its value, and a Redeem without metadata leaves
\* the stored keys and values as they are.
C37_MetadataMerged ==
    [][\A p \in Procs :
          (pr[p].op = "redeem" /\ ~pr[p].wrote /\ pr'[p].wrote) =>
              LET stored == Pairs(assignments[pr[p].aid].metadata)
                  after == Pairs(assignments'[pr[p].aid].metadata)
              IN  /\ IsNull(pr[p].meta) => after = stored
                  /\ \A kv \in stored : kv[1] \notin Keys(pr[p].meta) => kv \in after]_vars

\* ----------------------------------- cache locks that expire while held

\* Coupon X is assigned to u2; the three handlers call Lock or Redeem once each for
\* u2, and a key of the cache may reach its TTL at any moment.
InitExpiry ==
    /\ books = [b \in {"b1"} |-> CouponBook(Some(2), NULL, NULL, NULL, 1)]
    /\ now = 1
    /\ coupons = <<[Coupon("X", "b1") EXCEPT !.status = ASSIGNED, !.version = 2]>>
    /\ assignments = <<CouponAssignment(1, "u2")>>
    /\ rowLocks = {}
    /\ dedup = {}
    /\ cacheLocks = {}
    /\ cacheFaulty = FALSE
    /\ pr = [p \in Procs |-> [IdleProc EXCEPT !.budget = 1]]

NextExpiry ==
    \/ \E p \in Procs :
          \/ LockStart(p, "X", "u2", 1)
          \/ Lock(p)
          \/ RedeemStart(p, "X", "u2", NULL)
          \/ Redeem(p)
    \/ TtlExpire

SpecExpiry == InitExpiry /\ [][NextExpiry]_vars

\* C38: the release a Lock or Redeem call ends with removes no cache lock that
\* another call holds.
C38_ReleaseOwnLockOnly ==
    [][\A p \in Procs :
          (pr[p].pc \in {"l_release", "r_release"} /\ pr'[p].pc = "idle") =>
              \A l \in cacheLocks : l.by # <<p, pr[p].calls>> => l \in cacheLocks']_vars

\* ------------------------------- redemptions of different coupons of a book

\* The coupon each handler's user owns.
CodeOf(p) == IF p = "p1" THEN "X" ELSE IF p = "p2" THEN "Y" ELSE "Z"

\* Book b1 has the coupons X, Y and Z, each assigned to the user of one handler;
\* every handler redeems its own coupon once, all at the same time.
InitApart ==
    /\ books = [b \in {"b1"} |-> CouponBook(Some(1), NULL, NULL, NULL, 3)]
    /\ now = 1
    /\ coupons = [i \in 1..3 |-> [Coupon(CodeNames[i], "b1") EXCEPT !.status = ASSIGNED, !.version = 2]]
    /\ assignments = <<CouponAssignment(1, OwnUserOf("p1")), CouponAssignment(2, OwnUserOf("p2")),
                       CouponAssignment(3, OwnUserOf("p3"))>>
    /\ rowLocks = {}
    /\ dedup = {}
    /\ cacheLocks = {}
    /\ cacheFaulty = FALSE
    /\ pr = [p \in Procs |-> [IdleProc EXCEPT !.budget = 1]]

NextApart == \E p \in Procs : RedeemStart(p, CodeOf(p), OwnUserOf(p), NULL) \/ Redeem(p)

SpecApart == InitApart /\ [][NextApart]_vars

\* C39: concurrent Redeem calls on different coupons of one book, each by the
\* coupon's assignee and each eligible, all succeed.
C39_DifferentCouponsDoNotContend ==
    \A p \in Answered({"redeem"}) : pr[p].result = OK

\* The assignment rows of coupon c that carry a lock.
LockedRows(c) ==
    {j \in AssignmentIds : /\ assignments[j].couponId = c
                           /\ ~IsNull(assignments[j].lockedAt)
                           /\ ~IsNull(assignments[j].lockExpiresAt)}

\* C40: a coupon's status is LOCKED exactly when one of its assignment rows has
\* lockedAt and lockExpiresAt set.
C40_LockedIffLockFields ==
    \A c \in CouponIds : coupons[c].status = LOCKED <=> LockedRows(c) # {}

====
